---- MODULE Spec2Model ----
(***************************************************************************)
(* pyspatialml: the Raster layer stack (src/pyspatialml/__main.py).        *)
(*                                                                         *)
(* A Raster object is modelled as a record of its instance fields.  Every  *)
(* method is an operator from a Raster record (and its arguments) to a     *)
(* record [r |-> the object afterwards, err |-> the exception raised or    *)
(* "none"], so that an exception raised half-way leaves exactly the fields *)
(* the code had already assigned.                                          *)
(*                                                                         *)
(* Layer names are strings built by '_'.join; a name is modelled as the    *)
(* sequence of its '_'-separated tokens, so that <<"a","1">> is "a_1"      *)
(* whether the 1 is a band index or the duplicate suffix.                  *)
(***************************************************************************)
EXTENDS Integers, Sequences, FiniteSets, TLC

VARIABLES
    raster,     \* the Raster object the model follows
    op,         \* the last call made on it: its name, arguments and outcome
    pre,        \* the Raster object as it was before that call
    calls,      \* number of append, drop and rename calls made on it
    dtypes_in,  \* input of the dtype promotion under test
    dtype_out,  \* its result
    blk,        \* the calc or predict call in progress: its arguments, its
                \* position in the window loop and the destination file
    prd,        \* a window handed to a prediction function, and its result
    ext,        \* an extraction call: its arguments and what it returned
    smp,        \* a sample call: its arguments, its rounds and what it returned
    drawn       \* the positions np.random.choice gave the last round of sample

vars == <<raster, op, pre, calls, dtypes_in, dtype_out, blk, prd, ext, smp, drawn>>

(***************************************************************************)
(* Bounds                                                                  *)
(***************************************************************************)
MaxFiles == 3       \* files passed to one from_files call
MaxSeedFiles == 2   \* the same, for a stack that is then appended to, dropped from and renamed
MaxLayers == 4      \* members of a stack
MaxRename == 2      \* entries of one rename mapping
MaxOtherFiles == 1  \* files of the Raster handed to append
MaxOtherRename == 1 \* entries of the rename mapping applied to it before
MaxCalls == 2       \* append, drop and rename calls made on one stack
MaxDtypes == 3      \* members of a dtype list given to the promotion
MaxBlockFiles == 2  \* files of a stack that calc and predict are run on
MaxBlockCalls == 1  \* calc and predict calls made on one stack
MaxClasses == 2     \* classes of an estimator
MaxIndexes == 2     \* entries of the indexes list given to predict
MaxBands == 2       \* bands of a window handed to a prediction function
MaxPoints == 3      \* points, or labelled pixels, of one extraction
MaxShapes == 2      \* polygons or lines of one extraction
MaxSize == 3        \* the size asked of sample
MaxRounds == 3      \* rounds of drawing followed in one random sample
MaxFairSize == 2    \* the size asked of sample where termination is followed

(***************************************************************************)
(* Generic helpers                                                         *)
(***************************************************************************)
Range(s) == {s[i] : i \in 1..Len(s)}

MinOf(S) == CHOOSE x \in S : \A y \in S : x <= y

MaxOf(S) == CHOOSE x \in S : \A y \in S : x >= y

SeqsUpTo(S, n) == UNION {[1..k -> S] : k \in 1..n}

\* F applied to the value of v, which is computed once
Eval(v, F(_)) == CHOOSE y \in {F(x) : x \in {v}} : TRUE

\* [v for (i, v) in enumerate(s) if i+1 in K]
RECURSIVE KeepIdx(_, _, _)
KeepIdx(s, K, i) ==
    IF i > Len(s) THEN <<>>
    ELSE (IF i \in K THEN <<s[i]>> ELSE <<>>) \o KeepIdx(s, K, i + 1)

\* list.index(x): the first position holding x, 0 when absent (ValueError)
IndexOf(s, x) ==
    IF x \in Range(s) THEN CHOOSE i \in 1..Len(s) : s[i] = x /\ \A j \in 1..(i-1) : s[j] # x
    ELSE 0

(***************************************************************************)
(* The datasets on disk.  Each file is what rasterio.open returns for it:  *)
(* its path, band count, grid (width, height, transform), crs and dtype.   *)
(* Files 1 and 2 share a basename in different directories; file 2 differs *)
(* from file 1 in crs only; file 4 is a two-band file; file 5 differs from *)
(* file 1 in width only and file 6 in width, height and transform; file 7   *)
(* has the grid of file 6; file 8 has the width and transform of file 7    *)
(* and one row.                                                            *)
(***************************************************************************)
Datasets ==
    <<[dir |-> "d1", base |-> "a", count |-> 1, width |-> 1, height |-> 1,
       transform |-> 1, crs |-> 1, dtype |-> "float32"],
      [dir |-> "d2", base |-> "a", count |-> 1, width |-> 1, height |-> 1,
       transform |-> 1, crs |-> 2, dtype |-> "uint8"],
      [dir |-> "d1", base |-> "b", count |-> 1, width |-> 1, height |-> 1,
       transform |-> 1, crs |-> 1, dtype |-> "int16"],
      [dir |-> "d1", base |-> "m", count |-> 2, width |-> 1, height |-> 1,
       transform |-> 1, crs |-> 1, dtype |-> "uint16"],
      [dir |-> "d1", base |-> "w", count |-> 1, width |-> 2, height |-> 1,
       transform |-> 1, crs |-> 1, dtype |-> "int16"],
      [dir |-> "d1", base |-> "x", count |-> 1, width |-> 2, height |-> 3,
       transform |-> 2, crs |-> 1, dtype |-> "float32"],
      [dir |-> "d1", base |-> "n", count |-> 1, width |-> 2, height |-> 3,
       transform |-> 2, crs |-> 1, dtype |-> "int16"],
      [dir |-> "d1", base |-> "s", count |-> 1, width |-> 2, height |-> 1,
       transform |-> 2, crs |-> 1, dtype |-> "int16"]>>

\* the files that stacks are constructed from in the calls; file 8 is part
\* of a stack that is sampled
FileIds == 1..7

\* RasterLayer(band): the fields of a layer all come from its band and dataset
RasterLayer(f, b) == [cls |-> "RasterLayer", file |-> f, bidx |-> b]

\* an object that is no RasterLayer (a Raster handed in where a layer is expected)
OtherObject == [cls |-> "Raster", file |-> 0, bidx |-> 0]

ds(layer) == Datasets[layer.file]

\* layer.ds.meta: the part of the dataset's metadata the stack uses
ds_meta(layer) ==
    [crs |-> ds(layer).crs, transform |-> ds(layer).transform,
     width |-> ds(layer).width, height |-> ds(layer).height]

layer_dtype(layer) == ds(layer).dtype

\* the grid of a layer: what the alignment of a stack is about
Grid(layer) == <<ds(layer).width, ds(layer).height, ds(layer).transform>>

(***************************************************************************)
(* OrderedDict (Raster.loc): a sequence of [k, v] entries in insertion     *)
(* order.                                                                  *)
(***************************************************************************)
Keys(d) == {d[i].k : i \in 1..Len(d)}

Get(d, key) == (CHOOSE i \in 1..Len(d) : d[i].k = key)

Lookup(d, key) == d[Get(d, key)].v

\* d[key] = val, d.update({key: val}): an existing key keeps its position
Put(d, key, val) ==
    IF key \in Keys(d)
    THEN [i \in 1..Len(d) |-> IF d[i].k = key THEN [k |-> key, v |-> val] ELSE d[i]]
    ELSE Append(d, [k |-> key, v |-> val])

\* d.pop(key), for a key that is present
Pop(d, key) == KeepIdx(d, {i \in 1..Len(d) : d[i].k # key}, 1)

(***************************************************************************)
(* Instance attributes set with setattr(self, name, layer): a function     *)
(* from names to layers.                                                   *)
(***************************************************************************)
NoAttrs == [n \in {} |-> OtherObject]

Setattr(a, name, val) ==
    [n \in (DOMAIN a) \cup {name} |-> IF n = name THEN val ELSE a[n]]

Delattr(a, name) == [n \in (DOMAIN a) \ {name} |-> a[n]]

(***************************************************************************)
(* The Raster object                                                       *)
(***************************************************************************)
\* self.meta = None
NoMeta ==
    [crs |-> 0, transform |-> 0, width |-> 0, height |-> 0, count |-> 0,
     dtype |-> "None", driver |-> "absent", nodata |-> "absent"]

\* Raster.__init__ before the layers property is assigned
EmptyRaster ==
    [loc |-> <<>>, iloc |-> <<>>, names |-> <<>>, dtypes |-> <<>>, count |-> 0,
     meta |-> NoMeta, layers |-> <<>>, attrs |-> NoAttrs,
     width |-> 0, height |-> 0, transform |-> 0, crs |-> 0]

Result(r, e) == [r |-> r, err |-> e]

\* Raster._make_name: the file's basename without directory and extension,
\* with '_1' appended when that name is already in self.names
_make_name(names, file) ==
    LET valid_name == <<Datasets[file].base>>
    IN  IF valid_name \in Range(names) THEN valid_name \o <<"1">> ELSE valid_name

\* Raster._maximum_dtype with the int32 and uint32 branches in the other order
_maximum_dtype_swapped(dtypes) ==
    LET has(t) == t \in Range(dtypes)
    IN  IF has("complex128") THEN "complex128"
        ELSE IF has("complex64") THEN "complex64"
        ELSE IF has("complex") THEN "complex"
        ELSE IF has("float64") THEN "float64"
        ELSE IF has("float32") THEN "float32"
        ELSE IF has("uint32") THEN "uint32"
        ELSE IF has("int32") THEN "int32"
        ELSE IF has("int16") THEN "int16"
        ELSE IF has("uint16") THEN "uint16"
        ELSE IF has("bool") THEN "bool"
        ELSE "UnboundLocalError"

\* Raster._maximum_dtype: the if/elif chain over self.dtypes; when no branch
\* is taken the local dtype is unbound and the return raises
_maximum_dtype(dtypes) ==
    LET has(t) == t \in Range(dtypes)
    IN  IF has("complex128") THEN "complex128"
        ELSE IF has("complex64") THEN "complex64"
        ELSE IF has("complex") THEN "complex"
        ELSE IF has("float64") THEN "float64"
        ELSE IF has("float32") THEN "float32"
        ELSE IF has("int32") THEN "int32"
        ELSE IF has("uint32") THEN "uint32"
        ELSE IF has("int16") THEN "int16"
        ELSE IF has("uint16") THEN "uint16"
        ELSE IF has("uint16") THEN "uint16"
        ELSE IF has("bool") THEN "bool"
        ELSE "UnboundLocalError"

\* the module-level _maximum_dtype(src) on the dtypes of an open dataset: the
\* same if/elif chain, and the same unbound local when no branch is taken
_maximum_dtype_src(dtypes) ==
    LET has(t) == t \in Range(dtypes)
    IN  IF has("complex128") THEN "complex128"
        ELSE IF has("complex64") THEN "complex64"
        ELSE IF has("complex") THEN "complex"
        ELSE IF has("float64") THEN "float64"
        ELSE IF has("float32") THEN "float32"
        ELSE IF has("int32") THEN "int32"
        ELSE IF has("uint32") THEN "uint32"
        ELSE IF has("int16") THEN "int16"
        ELSE IF has("uint16") THEN "uint16"
        ELSE IF has("uint16") THEN "uint16"
        ELSE IF has("bool") THEN "bool"
        ELSE "UnboundLocalError"

\* Raster._check_alignment on a non-empty list of RasterLayers.  The crs
\* test builds a Warning object and drops it: nothing is issued.  The grid
\* test rejects the list only when it holds a member that differs from the
\* first in height and in width and in transform.
_check_alignment(layers) ==
    LET src_meta == [i \in 1..Len(layers) |-> ds_meta(layers[i])]
        same_crs == \A i \in 1..Len(layers) : src_meta[i].crs = src_meta[1].crs
        passes == \A i \in 1..Len(layers) :
                      \/ src_meta[i].height = src_meta[1].height
                      \/ src_meta[i].width = src_meta[1].width
                      \/ src_meta[i].transform = src_meta[1].transform
    IN  [aligned |-> passes, meta |-> src_meta[1],
         warning_objects |-> IF same_crs THEN 0 ELSE 1,
         warnings_issued |-> 0]

\* for name in self.names: delattr(self, name)
RECURSIVE DelattrAll(_, _, _)
DelattrAll(attrs, names, i) ==
    IF i > Len(names) THEN [attrs |-> attrs, err |-> "none"]
    ELSE Eval(attrs, LAMBDA a :
            IF names[i] \notin DOMAIN a THEN [attrs |-> a, err |-> "AttributeError"]
            ELSE DelattrAll(Delattr(a, names[i]), names, i + 1))

\* one round of the per-layer loop of the layers setter
AddLayer(r, layer) ==
    LET made == _make_name(r.names, layer.file)
    IN  Eval(IF ds(layer).count > 1 THEN made \o <<ToString(layer.bidx)>> ELSE made,
             LAMBDA valid_name :
                [r EXCEPT !.dtypes = Append(@, layer_dtype(layer)),
                          !.names = Append(@, valid_name),
                          !.loc = Put(@, valid_name, layer),
                          !.iloc = Append(@, layer),
                          !.attrs = Setattr(@, valid_name, layer)])

\* the per-layer loop of the layers setter, from layer i on
RECURSIVE AddLayers(_, _, _)
AddLayers(r, layers, i) ==
    IF i > Len(layers) THEN r
    ELSE Eval(r, LAMBDA x : AddLayers(AddLayer(x, layers[i]), layers, i + 1))

\* the layers setter after its checks: reset the attributes, take the grid
\* of meta, add the layers and build self.meta
AssignLayers(r, layers, chk) ==
    Eval(DelattrAll(r.attrs, r.names, 1), LAMBDA del :
      IF del.err # "none"
      THEN [r |-> [r EXCEPT !.attrs = del.attrs], err |-> del.err,
            warnings |-> chk.warnings_issued]
      ELSE
      Eval(AddLayers([r EXCEPT !.attrs = del.attrs, !.iloc = <<>>, !.loc = <<>>,
                               !.names = <<>>, !.dtypes = <<>>,
                               !.count = Len(layers), !.width = chk.meta.width,
                               !.height = chk.meta.height,
                               !.transform = chk.meta.transform,
                               !.crs = chk.meta.crs, !.layers = layers],
                     layers, 1),
           LAMBDA filled :
             Eval(_maximum_dtype(filled.dtypes), LAMBDA dtype :
               IF dtype = "UnboundLocalError"
               THEN [r |-> filled, err |-> "UnboundLocalError",
                     warnings |-> chk.warnings_issued]
               ELSE [r |-> [filled EXCEPT !.meta =
                               [crs |-> filled.crs, transform |-> filled.transform,
                                width |-> filled.width, height |-> filled.height,
                                count |-> filled.count, dtype |-> dtype,
                                driver |-> "absent", nodata |-> "absent"]],
                     err |-> "none", warnings |-> chk.warnings_issued])))

\* the layers setter: self.layers = layers
SetLayers(r, layers) ==
    IF \E i \in 1..Len(layers) : layers[i].cls # layers[1].cls
    THEN [r |-> r, err |-> "ValueError", warnings |-> 0]
    ELSE IF \E i \in 1..Len(layers) : layers[i].cls # "RasterLayer"
    THEN [r |-> r, err |-> "AttributeError", warnings |-> 0]
    ELSE IF Len(layers) = 0
    THEN [r |-> r, err |-> "IndexError", warnings |-> 0]
    ELSE Eval(_check_alignment(layers), LAMBDA chk :
            IF ~chk.aligned
            THEN [r |-> r, err |-> "ValueError", warnings |-> chk.warnings_issued]
            ELSE AssignLayers(r, layers, chk))

\* the bands of the files, in order: the list from_files hands to Raster()
RECURSIVE Bands(_, _)
Bands(file_path, i) ==
    IF i > Len(file_path) THEN <<>>
    ELSE [b \in 1..Datasets[file_path[i]].count |-> RasterLayer(file_path[i], b)]
         \o Bands(file_path, i + 1)

\* from_files(file_path): Raster(bands) on a fresh object
from_files(file_path) == SetLayers(EmptyRaster, Bands(file_path, 1))

(***************************************************************************)
(* rename, append, drop                                                    *)
(***************************************************************************)
\* one entry of Raster.rename's loop
RenameOne(r, old_name, new_name) ==
    IF old_name \notin Keys(r.loc) THEN Result(r, "KeyError")
    ELSE IF old_name \notin Range(r.names) THEN Result(r, "ValueError")
    ELSE
    LET layer == Lookup(r.loc, old_name)
        idx == IndexOf(r.names, old_name)
    IN  Eval([r EXCEPT !.names[idx] = new_name,
                       !.loc = Eval(Pop(r.loc, old_name),
                                    LAMBDA d : Put(d, new_name, layer)),
                       !.attrs = Setattr(@, new_name, layer)],
             LAMBDA set :
                IF new_name = old_name THEN Result(set, "none")
                ELSE IF old_name \notin DOMAIN set.attrs
                THEN Result(set, "AttributeError")
                ELSE Result([set EXCEPT !.attrs = Delattr(@, old_name)], "none"))

\* Raster.rename(names): the entries of the dict in order, from entry i on;
\* names is a sequence of [old, new] with distinct old
RECURSIVE RenameFrom(_, _, _)
RenameFrom(r, names, i) ==
    IF i > Len(names) THEN Result(r, "none")
    ELSE Eval(r, LAMBDA x :
           Eval(RenameOne(x, names[i].old, names[i].new), LAMBDA one :
              IF one.err # "none" THEN one ELSE RenameFrom(one.r, names, i + 1)))

rename(r, names) == RenameFrom(r, names, 1)

\* {reset_names[i]: newname for i, newname in enumerate(targets)} as the
\* dict's items in order: a repeated key keeps its first position and takes
\* its last value
RECURSIVE DictOf(_, _, _)
DictOf(reset_names, targets, i) ==
    IF i = 0 THEN <<>>
    ELSE Eval(DictOf(reset_names, targets, i - 1), LAMBDA d :
           IF \E j \in 1..Len(d) : d[j].old = reset_names[i]
           THEN [j \in 1..Len(d) |->
                    IF d[j].old = reset_names[i]
                    THEN [old |-> reset_names[i], new |-> targets[i]] ELSE d[j]]
           ELSE Append(d, [old |-> reset_names[i], new |-> targets[i]]))

\* Raster.append(other) for one Raster other.  self.layers += other.layers
\* extends the list held in self._layers in place and then assigns it
\* through the setter.
append(r, other) ==
    LET existing_names == r.names
        other_names == other.names
        targets == existing_names \o other_names
    IN  Eval([r EXCEPT !.layers = r.layers \o other.layers], LAMBDA extended :
          Eval(SetLayers(extended, extended.layers), LAMBDA set :
            IF set.err # "none" THEN Result(set.r, set.err)
            ELSE IF Len(targets) > Len(set.r.names) THEN Result(set.r, "IndexError")
            ELSE Eval(DictOf(set.r.names, targets, Len(targets)),
                      LAMBDA renamed : rename(set.r, renamed))))

\* the tail of drop: self.names filtered again, after the setter has
\* rebuilt it; keep(names, i) says whether position i stays
DropNames(set, keep(_, _)) ==
    IF set.err # "none" THEN Result(set.r, set.err)
    ELSE Result([set.r EXCEPT !.names =
                    KeepIdx(@, {i \in 1..Len(set.r.names) : keep(set.r.names, i)}, 1)],
                "none")

\* Raster.drop(labels).  labels is [ints |-> the positions named (from 0),
\* strs |-> the names named]; one of the two is empty unless the list is mixed
drop(r, labels) ==
    IF labels.strs = {}
    THEN Eval(SetLayers(r, KeepIdx(r.layers,
                  {i \in 1..Len(r.layers) : (i - 1) \notin labels.ints}, 1)),
              LAMBDA set : DropNames(set, LAMBDA names, i : (i - 1) \notin labels.ints))
    ELSE IF labels.ints = {}
    THEN IF Len(r.layers) > Len(r.names) THEN Result(r, "IndexError")
         ELSE Eval(SetLayers(r, KeepIdx(r.layers,
                       {i \in 1..Len(r.layers) : r.names[i] \notin labels.strs}, 1)),
                   LAMBDA set :
                      DropNames(set, LAMBDA names, i : names[i] \notin labels.strs))
    ELSE Result(r, "ValueError")

(***************************************************************************)
(* stack[layername]                                                        *)
(***************************************************************************)
\* what getattr finds on a Raster besides the layers: the fields assigned
\* by Raster.__init__ and by the layers setter, the layers property, the
\* methods of Raster and of BaseRaster, and the special attributes of the
\* class and of every object, which depend on the interpreter: __getstate__
\* is there from Python 3.11 on, __firstlineno__ and __static_attributes__
\* from 3.13 on.  A name with underscores is also given by its parts, as the
\* names of layers are
PythonVersions == {"3.10", "3.11", "3.13"}

RasterMembers(python) ==
    (IF python \in {"3.11", "3.13"} THEN {<<"__getstate__">>} ELSE {})
    \cup
    (IF python = "3.13"
     THEN {<<"__firstlineno__">>, <<"__static_attributes__">>} ELSE {})
    \cup
    {<<"loc">>, <<"iloc">>, <<"names">>, <<"files">>, <<"dtypes">>,
     <<"nodatavals">>, <<"count">>, <<"res">>, <<"meta">>, <<"layers">>,
     <<"_layers">>, <<"", "layers">>,
     <<"width">>, <<"height">>, <<"shape">>, <<"transform">>, <<"crs">>,
     <<"bounds">>,
     <<"iterlayers">>, <<"read">>, <<"write">>, <<"predict">>, <<"append">>,
     <<"drop">>, <<"rename">>,
     <<"extract_xy">>, <<"extract", "xy">>,
     <<"extract_vector">>, <<"extract", "vector">>,
     <<"extract_raster">>, <<"extract", "raster">>,
     <<"_check_alignment">>, <<"", "check", "alignment">>,
     <<"_make_name">>, <<"", "make", "name">>,
     <<"_maximum_dtype">>, <<"", "maximum", "dtype">>,
     <<"_extract_by_indices">>, <<"", "extract", "by", "indices">>,
     <<"_clip_xy">>, <<"", "clip", "xy">>,
     <<"reproject">>, <<"mask">>, <<"resample">>, <<"aggregate">>, <<"calc">>,
     <<"crop">>, <<"_newraster">>, <<"", "newraster">>, <<"plot">>,
     <<"sample">>, <<"head">>, <<"tail">>,
     <<"to_pandas">>, <<"to", "pandas">>,
     <<"__init__">>, <<"__getitem__">>, <<"__class__">>, <<"__dict__">>,
     <<"__doc__">>, <<"__module__">>, <<"__weakref__">>, <<"__delattr__">>,
     <<"__dir__">>, <<"__eq__">>, <<"__format__">>, <<"__ge__">>,
     <<"__getattribute__">>, <<"__gt__">>, <<"__hash__">>,
     <<"__init_subclass__">>, <<"__le__">>, <<"__lt__">>, <<"__ne__">>,
     <<"__new__">>, <<"__reduce__">>, <<"__reduce_ex__">>, <<"__repr__">>,
     <<"__setattr__">>, <<"__sizeof__">>, <<"__str__">>,
     <<"__subclasshook__">>}

\* a field or a method of the object: something that is no RasterLayer
Member(name) == [cls |-> "member", file |-> 0, bidx |-> 0, name |-> name]

\* nothing is returned
NoValue == [cls |-> "none", file |-> 0, bidx |-> 0, name |-> <<>>]

\* a layer as the value of a lookup
LayerValue(layer) ==
    [cls |-> layer.cls, file |-> layer.file, bidx |-> layer.bidx, name |-> <<>>]

\* self.names is False: the identity test of a list against the object False
is_False(names) == FALSE

\* the guard of __getitem__: "layername in self.names is False" is the
\* chained comparison (layername in self.names) and (self.names is False),
\* and a list is never the object False
absent(names, layername) == (layername \in Range(names)) /\ is_False(names)

\* Raster.__getitem__(layername): the guard, then getattr(self, layername)
__getitem__(r, layername, python) ==
    IF absent(r.names, layername)
    THEN [err |-> "AttributeError", value |-> NoValue]
    ELSE IF layername \in DOMAIN r.attrs
    THEN [err |-> "none", value |-> LayerValue(r.attrs[layername])]
    ELSE IF layername \in RasterMembers(python)
    THEN [err |-> "none", value |-> Member(layername)]
    ELSE [err |-> "AttributeError", value |-> NoValue]

\* Raster.iterlayers(): the items of self.loc in the order of the dict
iterlayers(r) == [i \in 1..Len(r.loc) |-> <<r.loc[i].k, r.loc[i].v>>]

(***************************************************************************)
(* read                                                                    *)
(***************************************************************************)
\* the member names of rasterio.enums.Resampling, as read's docstring lists
\* them, with the default 'nearest'
Resampling ==
    <<"nearest", "bilinear", "cubic", "cubic_spline", "lanczos", "average",
      "mode", "gauss", "max", "min", "med", "q1", "q3">>

\* the same list without the check of the name: every name is taken
resampling_methods_unchecked(resampling) == TRUE

\* resampling in [i.name for i in rasterio.enums.Resampling]
resampling_methods(resampling) == resampling \in Range(Resampling)

(***************************************************************************)
(* Pixel content of the datasets.  A value is held as a number of halves,  *)
(* so that 3 is 1.5 and Whole(2) is 2: the bands of the floating-point     *)
(* files hold fractions, those of the integer files whole numbers.         *)
(***************************************************************************)
Whole(n) == 2 * n

IsFloat(dtype) == dtype \in {"float32", "float64", "complex", "complex64", "complex128"}

\* the cells <<file, band, row, col>> that hold the band's no-data value
NoDataCells == {<<2, 1, 0, 0>>, <<4, 2, 0, 0>>, <<5, 1, 0, 1>>, <<6, 1, 1, 0>>}

PixelValue(layer, row, col) ==
    LET n == layer.file + layer.bidx + row * ds(layer).width + col
    IN  IF IsFloat(layer_dtype(layer)) THEN Whole(n) + 1 ELSE Whole(n)

PixelMasked(layer, row, col) == <<layer.file, layer.bidx, row, col>> \in NoDataCells

\* ndarray.astype(dtype), and the cast of an assignment into an array of
\* that dtype: bool gives True (1) for every value but 0; an integer dtype
\* drops the fraction, toward zero, and keeps the low bits of a whole number
\* outside its range, which for uint32 is the number plus 2^32 (the other
\* numbers here are far inside 32 bits)
astype(v, dtype) ==
    LET whole == IF v >= 0 THEN v \div 2 ELSE -((-v) \div 2)
        modulus == IF dtype \in {"uint8", "int8"} THEN 256 ELSE 65536
        low == whole % modulus
    IN  IF IsFloat(dtype) THEN v
        ELSE IF dtype = "bool" THEN (IF v # 0 THEN Whole(1) ELSE Whole(0))
        ELSE IF dtype \in {"uint8", "uint16"} THEN Whole(low)
        ELSE IF dtype \in {"int8", "int16"}
        THEN Whole(IF 2 * low >= modulus THEN low - modulus ELSE low)
        ELSE IF dtype = "uint32"
        THEN Whole(IF whole < 0 THEN 65536 * 65536 + whole ELSE whole)
        ELSE Whole(whole)

\* rasterio.windows.Window(col_off, row_off, width, height)
Window(col_off, row_off, width, height) ==
    [col_off |-> col_off, row_off |-> row_off, width |-> width, height |-> height]

\* window=None, out_shape=None
NoWindow == Window(0, 0, 0, 0)

NoShape == <<0, 0>>

\* the window a band is read at: the band whole for window=None, else the
\* part of the window that lies in the band, which is what a read that is
\* not boundless is cut to (window.crop(height, width))
read_window(layer, window) ==
    IF window = NoWindow THEN Window(0, 0, ds(layer).width, ds(layer).height)
    ELSE LET lesser(a, b) == IF a < b THEN a ELSE b
             greater(a, b) == IF a > b THEN a ELSE b
             row_off == lesser(greater(window.row_off, 0), ds(layer).height)
             col_off == lesser(greater(window.col_off, 0), ds(layer).width)
             row_lim == greater(0, lesser(window.row_off + window.height,
                                          ds(layer).height))
             col_lim == greater(0, lesser(window.col_off + window.width,
                                          ds(layer).width))
         IN  Window(col_off, row_off, greater(col_lim - col_off, 0),
                    greater(row_lim - row_off, 0))

\* layer.read(masked=True, window=window): the array of the band's cells
\* in the window it is read at, [row][col], each with its value and
\* whether it is masked, with its shape
layer_read(layer, window) ==
    LET win == read_window(layer, window)
    IN  [height |-> win.height, width |-> win.width,
         cells |-> [i \in 1..win.height |-> [j \in 1..win.width |->
            [data |-> PixelValue(layer, win.row_off + i - 1, win.col_off + j - 1),
             mask |-> PixelMasked(layer, win.row_off + i - 1, win.col_off + j - 1)]]]]

\* arr[i, :, :] = band for a slot of height rows and width columns is
\* accepted, band being an array of band.height rows and band.width
\* columns: numpy stretches an axis of length one and refuses every other
\* difference between the two shapes
broadcasts(band, height, width) ==
    /\ band.height \in {height, 1}
    /\ band.width \in {width, 1}

\* the cells the slot holds after the assignment
broadcast(band, height, width) ==
    [i \in 1..height |-> [j \in 1..width |->
        band.cells[IF band.height = 1 THEN 1 ELSE i][IF band.width = 1 THEN 1 ELSE j]]]

\* (height, width) of the array Raster.read makes: out_shape if given, else
\* the size of the window, else that of the stack
slot_shape(r, window, out_shape) ==
    IF out_shape # NoShape THEN out_shape
    ELSE IF window = NoWindow THEN <<r.height, r.width>>
    ELSE <<window.height, window.width>>

\* the loop of Raster.read over self.iloc: the assignment of a band whose
\* array does not fit the slot raises ValueError, and bands_read counts the
\* layers read until then.  A decimated read gives every band the shape
\* asked for
read_bands(r, window, out_shape) ==
    LET shape == slot_shape(r, window, out_shape)
        misfits == {b \in 1..Len(r.iloc) :
                       /\ out_shape = NoShape
                       /\ ~broadcasts(read_window(r.iloc[b], window),
                                      shape[1], shape[2])}
    IN  [err |-> IF misfits = {} THEN "none" ELSE "ValueError",
         bands_read |-> IF misfits = {} THEN Len(r.iloc) ELSE MinOf(misfits)]

\* Raster.read after the validation of the resampling name: an array of
\* dtype self.meta['dtype'] and shape (count, height, width), filled band by
\* band from the layers; the content of a decimated read is left out
read_array(r, window, out_shape) ==
    LET dtype == r.meta.dtype
        height == slot_shape(r, window, out_shape)[1]
        width == slot_shape(r, window, out_shape)[2]
        bands == read_bands(r, window, out_shape)
    IN  [dtype |-> dtype,
         shape |-> <<r.count, height, width>>,
         err |-> bands.err,
         bands_read |-> bands.bands_read,
         arr |-> IF out_shape # NoShape \/ bands.err # "none" THEN <<>>
                 ELSE [b \in 1..Len(r.iloc) |->
                         LET band == broadcast(layer_read(r.iloc[b], window),
                                               height, width)
                         IN  [i \in 1..height |-> [j \in 1..width |->
                                [data |-> astype(band[i][j].data, dtype),
                                 mask |-> band[i][j].mask]]]]]

\* Raster.read(resampling=...): the name is validated first, before any
\* band is read; then the layers of self.iloc are read one after the other
\* into the array
read(r, resampling) ==
    IF ~resampling_methods(resampling)
    THEN [err |-> "ValueError", bands_read |-> 0]
    ELSE read_bands(r, NoWindow, NoShape)

(***************************************************************************)
(* The block pipeline: calc and predict                                    *)
(***************************************************************************)
\* the default nodata argument of calc, predict and crop
nodata == Whole(-99999)

\* the nodata arguments of a caller: the default, and a value that 16 bits
\* hold
NodataValues == {nodata, Whole(-9999)}

\* the dtype holds the value: the test rasterio.open makes on the nodata of
\* a destination, refused with ValueError, and the conversion numpy makes of
\* a fill value
in_dtype_range(value, dtype) ==
    IF IsFloat(dtype) \/ dtype \in {"int32", "int64"} THEN TRUE
    ELSE IF dtype = "uint32" THEN value >= 0
    ELSE IF dtype = "bool" THEN value \in {Whole(0), Whole(1)}
    ELSE astype(value, dtype) = value

\* the bytes of one strip of a GTiff that is created without a block size:
\* as many whole rows as fit in them, and one row at least
StripBytes == 8192

\* the bytes of one value of a dtype
itemsize(dtype) ==
    IF dtype \in {"bool", "uint8", "int8"} THEN 1
    ELSE IF dtype \in {"uint16", "int16"} THEN 2
    ELSE IF dtype \in {"uint32", "int32", "float32"} THEN 4
    ELSE IF dtype \in {"complex", "complex128"} THEN 16
    ELSE 8

\* the rows of one strip of the destination: a row holds the values of all
\* its bands
strip_rows(width, height, count, dtype) ==
    LET row_bytes == width * count * itemsize(dtype)
        rows == IF row_bytes = 0 \/ StripBytes \div row_bytes > height THEN height
                ELSE StripBytes \div row_bytes
    IN  IF rows < 1 THEN 1 ELSE rows

\* [window for ij, window in dst.block_windows()] for the destination
\* opened with the given width, height, count and dtype: its strips from
\* the top, each as wide as the file, the last one cut at the last row
block_windows(width, height, count, dtype) ==
    LET rows == strip_rows(width, height, count, dtype)
        n == (height + rows - 1) \div rows
    IN  [k \in 1..n |->
            Window(0, (k - 1) * rows, width,
                   IF k * rows <= height THEN rows ELSE height - (k - 1) * rows)]

\* the functions handed to calc: the identity, the doubling of every cell,
\* and the sum over the bands, which returns a 2-dimensional array
Functions == {"identity", "double", "sum"}

function_ndim(function) == IF function = "sum" THEN 2 ELSE 3

RECURSIVE SumSeq(_, _)
SumSeq(s, i) == IF i > Len(s) THEN 0 ELSE s[i] + SumSeq(s, i + 1)

\* function(arr) for the functions that return a 3-dimensional array
function_apply(function, arr) ==
    IF function = "double"
    THEN [b \in 1..Len(arr) |-> [i \in 1..Len(arr[b]) |-> [j \in 1..Len(arr[b][i]) |->
            [data |-> 2 * arr[b][i][j].data, mask |-> arr[b][i][j].mask]]]]
    ELSE arr

\* what np.ma.filled does with a fill value that the dtype of the array
\* cannot hold: the older numpy releases wrap it, the newer ones raise
\* TypeError
NumpyRules == {"wrap", "raise"}

\* np.ma.filled(result, fill_value=fill_value) raises: the fill value is
\* converted to the dtype of the result, whatever the mask holds
fill_refused(result_dtype, fill_value, numpy) ==
    /\ numpy = "raise"
    /\ result_dtype # "bool"
    /\ ~in_dtype_range(fill_value, result_dtype)

\* np.ma.filled(result, fill_value=fill_value) on a result of dtype
\* result_dtype, followed by astype(dtype): a masked cell gets the fill
\* value as the dtype of the result holds it, and then the cast
filled(result, result_dtype, dtype, fill_value) ==
    [b \in 1..Len(result) |-> [i \in 1..Len(result[b]) |-> [j \in 1..Len(result[b][i]) |->
        astype(IF result[b][i][j].mask THEN astype(fill_value, result_dtype)
               ELSE result[b][i][j].data, dtype)]]]

\* meta = self.meta; meta.update(driver=, count=, dtype=, nodata=): meta is
\* the dict self.meta refers to, so the update is made on the stack's own
\* metadata
meta_update(r, count, dtype, fill_value) ==
    [r EXCEPT !.meta = [@ EXCEPT !.driver = "GTiff", !.count = count,
                                 !.dtype = dtype,
                                 !.nodata = ToString(fill_value \div 2)]]

\* estimator.predict(flat_pixels) for one sample: a class from the features
estimator_predict(estimator, x) == Whole((SumSeq(x, 1) \div 2) % estimator.classes)

\* estimator.predict_proba(flat_pixels) for one sample: a score per class
estimator_predict_proba(estimator, x) ==
    [k \in 1..estimator.classes |-> (SumSeq(x, 1) + k) % 7]

\* img.transpose(1, 2, 0).reshape((n_samples, n_features)): sample
\* row * cols + col holds the cell of every band at (row, col)
flat_pixels(img) ==
    LET rows == Len(img[1])
        cols == Len(img[1][1])
    IN  [s \in 1..(rows * cols) |-> [f \in 1..Len(img) |->
            img[f][((s - 1) \div cols) + 1][((s - 1) % cols) + 1]]]

\* _probfun with the mask taken from the first band only
_probfun_first_band(img, estimator) ==
    LET rows == Len(img[1])
        cols == Len(img[1][1])
        flat == flat_pixels(img)
        result_proba == [s \in 1..Len(flat) |->
            estimator_predict_proba(estimator, [f \in 1..Len(img) |-> flat[s][f].data])]
    IN  [k \in 1..estimator.classes |-> [i \in 1..rows |-> [j \in 1..cols |->
            [data |-> result_proba[(i - 1) * cols + j][k],
             mask |-> img[1][i][j].mask]]]]

\* _predfun(img, estimator): one band, masked where any feature of the
\* sample is masked
_predfun(img, estimator) ==
    LET rows == Len(img[1])
        cols == Len(img[1][1])
        flat == flat_pixels(img)
        flat_pixels_mask == [s \in 1..Len(flat) |-> [f \in 1..Len(img) |-> flat[s][f].mask]]
        result_cla == [s \in 1..Len(flat) |->
            [data |-> estimator_predict(estimator, [f \in 1..Len(img) |-> flat[s][f].data]),
             mask |-> \E f \in 1..Len(img) : flat_pixels_mask[s][f]]]
    IN  <<[i \in 1..rows |-> [j \in 1..cols |-> result_cla[(i - 1) * cols + j]]]>>

\* _probfun(img, estimator): one band per class, each masked with
\* img.mask.any(axis=0)
_probfun(img, estimator) ==
    LET rows == Len(img[1])
        cols == Len(img[1][1])
        mask2d == [i \in 1..rows |-> [j \in 1..cols |->
                      \E f \in 1..Len(img) : img[f][i][j].mask]]
        flat == flat_pixels(img)
        result_proba == [s \in 1..Len(flat) |->
            estimator_predict_proba(estimator, [f \in 1..Len(img) |-> flat[s][f].data])]
    IN  [k \in 1..estimator.classes |-> [i \in 1..rows |-> [j \in 1..cols |->
            [data |-> result_proba[(i - 1) * cols + j][k],
             mask |-> mask2d[i][j]]]]]

\* the local predfun is assigned for 'raw' and for 'prob' only
predfun_bound(predict_type) == predict_type \in {"raw", "prob"}

\* the dtype of the array predfun returns: that of estimator.predict (class
\* numbers) or of estimator.predict_proba; both hold the fill value
predfun_dtype(predict_type) == IF predict_type = "raw" THEN "int64" ELSE "float64"

predfun(predict_type, img, estimator) ==
    IF predict_type = "raw" THEN _predfun(img, estimator) ELSE _probfun(img, estimator)

\* predict_indexes with the class count taken for a single integer index
predict_indexes_all(predict_type, indexes, estimator) ==
    IF predict_type = "prob" /\ indexes.kind \in {"none", "int"}
    THEN [k \in 1..estimator.classes |-> k - 1]
    ELSE IF predict_type = "raw" THEN <<0>>
    ELSE indexes.at

\* the indexes predict works with.  indexes is [kind |-> "none", "int" or
\* "list", at |-> the class indices (from 0)]; the result is the sequence
\* of class indices written
predict_indexes(predict_type, indexes, estimator) ==
    IF predict_type = "prob" /\ indexes.kind = "int" THEN indexes.at
    ELSE IF predict_type = "prob" /\ indexes.kind = "none"
    THEN [k \in 1..estimator.classes |-> k - 1]
    ELSE IF predict_type = "raw" THEN <<0>>
    ELSE indexes.at

\* result[indexes, :, :]
take(result, indexes) == [k \in 1..Len(indexes) |-> result[indexes[k] + 1]]

\* from_files(file_path) on the file calc or predict wrote: the names that
\* the bands of the output file get
output_names(count) ==
    IF count > 1 THEN [k \in 1..count |-> <<"out", ToString(k)>>] ELSE << <<"out">> >>

(***************************************************************************)
(* The module-level predict and calc, on the dataset whose bands the stack *)
(* holds                                                                   *)
(***************************************************************************)
\* the stack holds the bands of one dataset, in the order of the file: the
\* dataset is what the module-level functions are called on
SingleDataset(r) ==
    /\ Len(r.iloc) = ds(r.iloc[1]).count
    /\ \A i \in 1..Len(r.iloc) : r.iloc[i] = RasterLayer(r.iloc[1].file, i)

\* what src.read does with window=(0, 0, 1, src.width), a flat tuple of
\* four numbers where a Window or a pair of ranges is expected: the
\* library takes it as the window Window(0, 0, 1, width), or it refuses it
TupleWindows == {"read", "refused"}

\* the probe src.read(masked=True, window=(0, 0, 1, src.width)) fails
dataset_probe_err(tuple_window) ==
    IF tuple_window = "refused" THEN "TypeError" ELSE "none"

\* n_samples of the probe when the tuple is taken as Window(0, 0, 1, width):
\* one column of width rows, cut at the extent of the dataset
dataset_probe_samples(r) ==
    (IF r.width < r.height THEN r.width ELSE r.height) * 1

\* the determination of the output count in the module-level predict: with
\* 'prob' and indexes None it is range(result.shape[0]), the number of
\* samples of the probe
dataset_predict_indexes(predict_type, indexes, estimator, n_samples) ==
    IF predict_type = "prob" /\ indexes.kind = "int" THEN indexes.at
    ELSE IF predict_type = "prob" /\ indexes.kind = "none"
    THEN [k \in 1..n_samples |-> k - 1]
    ELSE IF predict_type = "raw" THEN <<0>>
    ELSE indexes.at

\* range(arr.shape[0]) of the module-level calc for a 3-dimensional result
dataset_calc_indexes(count) == [k \in 1..count |-> k - 1]

\* the dtype of the arrays the module-level functions read: the dtype of
\* the bands when they share one, else the promotion _maximum_dtype(src)
dataset_dtype(r) ==
    LET dtypes == [i \in 1..Len(r.iloc) |-> layer_dtype(r.iloc[i])]
    IN  IF \A i \in 1..Len(dtypes) : dtypes[i] = dtypes[1] THEN dtypes[1]
        ELSE _maximum_dtype_src(dtypes)

\* the array of a window as the module-level functions read it,
\* src.read(window=window, masked=True) or the band-wise read into an array
\* of the promoted dtype (src.meta is a new dict at every access, so that
\* meta.update does not reach the dataset)
dataset_read(r, window) ==
    [b \in 1..Len(r.iloc) |->
        LET band == layer_read(r.iloc[b], window)
        IN  [i \in 1..band.height |-> [j \in 1..band.width |->
               [data |-> astype(band.cells[i][j].data, dataset_dtype(r)),
                mask |-> band.cells[i][j].mask]]]]

\* the body of the window loop of the module-level functions, on an array
\* of dtype arr_dtype
dataset_write(kind, function, predict_type, estimator, indexes, arr, arr_dtype, dtype, fill_value, numpy) ==
    IF kind = "calc"
    THEN IF fill_refused(arr_dtype, fill_value, numpy) THEN <<"TypeError">>
         ELSE filled(function_apply(function, arr), arr_dtype, dtype, fill_value)
    ELSE Eval(predfun(predict_type, arr, estimator), LAMBDA result :
            IF \E k \in 1..Len(indexes) : indexes[k] + 1 > Len(result)
            THEN <<"IndexError">>
            ELSE filled(take(result, indexes), predfun_dtype(predict_type), dtype,
                        fill_value))

NoEstimator == [classes |-> 0]

NoIndexes == [kind |-> "none", at |-> <<>>]

NoBlock ==
    [phase |-> "idle", kind |-> "none", function |-> "none",
     estimator |-> NoEstimator, predict_type |-> "none", indexes |-> <<>>,
     given |-> NoIndexes, dtype |-> "None", progress |-> FALSE, count |-> 0, windows |-> <<>>,
     i |-> 1, arr |-> <<>>, log |-> <<>>, out |-> <<>>, names |-> <<>>,
     opened |-> FALSE, ds_err |-> "none", ds_indexes |-> <<>>, ds_out |-> <<>>,
     keys |-> <<>>,
     numpy |-> "wrap", nodata |-> nodata]

(***************************************************************************)
(* Extraction.  Coordinates are whole numbers of quarter pixels: the grid  *)
(* of a stack has its left edge at x = 0 and its bottom edge at y = 0, and *)
(* a pixel is Res units wide and high.                                     *)
(***************************************************************************)
Res == 4

\* self.bounds, from array_bounds(height, width, transform)
bounds(r) ==
    [left |-> 0, bottom |-> 0, right |-> Res * r.width, top |-> Res * r.height]

\* rasterio.transform.rowcol(transform, x, y)
rowcol(r, p) == <<(bounds(r).top - p[2]) \div Res, (p[1] - bounds(r).left) \div Res>>

\* rasterio.transform.xy(transform, row, col): the centre of the pixel
xy_of(r, pixel) ==
    <<bounds(r).left + Res * pixel[2] + Res \div 2,
      bounds(r).top - Res * pixel[1] - Res \div 2>>

\* the test of np.where in extract_xy and _clip_xy
inside(r, p) ==
    /\ p[1] > bounds(r).left
    /\ p[1] < bounds(r).right
    /\ p[2] > bounds(r).bottom
    /\ p[2] < bounds(r).top

\* valid_idx: the positions of the points inside the extent
valid_idx(r, xy) == {i \in 1..Len(xy) : inside(r, xy[i])}

\* Raster.extract_xy(xy): a row of values per point inside the extent, read
\* through a window of one pixel with self.read, which raises ValueError at
\* a pixel that a band of the stack does not have
extract_xy(r, xy) ==
    Eval(KeepIdx(xy, valid_idx(r, xy), 1), LAMBDA clipped :
      Eval([i \in 1..Len(clipped) |-> rowcol(r, clipped[i])], LAMBDA pixel :
        Eval(_maximum_dtype(r.dtypes), LAMBDA dtype :
          LET window(i) == Window(pixel[i][2], pixel[i][1], 1, 1)
          IN  IF dtype = "UnboundLocalError"
              THEN [err |-> "UnboundLocalError", values |-> <<>>]
              ELSE IF \E i \in 1..Len(clipped) :
                         read_bands(r, window(i), NoShape).err # "none"
              THEN [err |-> "ValueError", values |-> <<>>]
              ELSE [err |-> "none",
                    values |-> [i \in 1..Len(clipped) |->
                       Eval(read_array(r, window(i), NoShape).arr, LAMBDA cell :
                         [pixel |-> pixel[i],
                          cells |-> [b \in 1..r.count |->
                                       [data |-> astype(cell[b][1][1].data, dtype),
                                        mask |-> cell[b][1][1].mask]]])]])))

\* Raster._extract_by_indices(rows, cols): a row per (row, col), each band
\* read whole and indexed with arr[rows, cols], which raises IndexError at
\* a position the band does not have
_extract_by_indices(r, pixels) ==
    IF \E b \in 1..Len(r.iloc), i \in 1..Len(pixels) :
          \/ pixels[i][1] >= ds(r.iloc[b]).height
          \/ pixels[i][2] >= ds(r.iloc[b]).width
    THEN [err |-> "IndexError", X |-> <<>>]
    ELSE [err |-> "none",
          X |-> [i \in 1..Len(pixels) |->
                   [pixel |-> pixels[i],
                    cells |-> [b \in 1..Len(r.iloc) |->
                       [data |-> PixelValue(r.iloc[b], pixels[i][1], pixels[i][2]),
                        mask |-> PixelMasked(r.iloc[b], pixels[i][1], pixels[i][2])]]]]]

\* X.mask.any(axis=1) for row i
row_masked(X, i) == \E b \in 1..Len(X[i].cells) : X[i].cells[b].mask

\* np.ma.getdata(X): the values without the mask
getdata(X) ==
    [i \in 1..Len(X) |->
        [X[i] EXCEPT !.cells = [b \in 1..Len(X[i].cells) |->
                                   [X[i].cells[b] EXCEPT !.mask = FALSE]]]]

\* a label as a fraction, so that a mean is exact
Label(v) == [num |-> v, den |-> 1]

RECURSIVE SumOver(_, _)
SumOver(y, S) ==
    IF S = {} THEN 0
    ELSE LET i == CHOOSE i \in S : TRUE IN y[i] + SumOver(y, S \ {i})

\* groupby(...).mean(), .min() or .max() of the labels y at the positions S
aggregate(duplicates, y, S) ==
    IF duplicates = "mean" THEN [num |-> SumOver(y, S), den |-> Cardinality(S)]
    ELSE IF duplicates = "min"
    THEN Label(CHOOSE v \in {y[i] : i \in S} : \A i \in S : v <= y[i])
    ELSE Label(CHOOSE v \in {y[i] : i \in S} : \A i \in S : v >= y[i])

\* the duplicates branch of extract_vector: the frame of (row, col, label),
\* the column Duplicated that is False at the first point of a pixel and
\* True at the others, and the group-by over (Duplicated, row, col) in the
\* order in which the keys appear
group_duplicates(duplicates, pixels, y) ==
    LET key(i) == <<\E j \in 1..(i - 1) : pixels[j] = pixels[i], pixels[i]>>
        firsts == {i \in 1..Len(pixels) : \A j \in 1..(i - 1) : key(j) # key(i)}
        order == KeepIdx([i \in 1..Len(pixels) |-> i], firsts, 1)
    IN  [pixels |-> [g \in 1..Len(order) |-> pixels[order[g]]],
         y |-> [g \in 1..Len(order) |->
                  aggregate(duplicates, y,
                            {i \in 1..Len(pixels) : key(i) = key(order[g])})]]

\* the pixels and labels of polygon or line shapes: each shape is
\* rasterized and gives its pixels in row-major order with its label
RECURSIVE shape_pixels(_, _)
shape_pixels(shapes, i) ==
    IF i > Len(shapes) THEN <<>>
    ELSE [k \in 1..Len(shapes[i].pixels) |->
             [pixel |-> shapes[i].pixels[k], y |-> shapes[i].label]]
         \o shape_pixels(shapes, i + 1)

\* the names extract_vector accepts for duplicates
duplicate_methods == {"keep", "mean", "min", "max"}

\* the end of extract_vector and the whole result: the row mask of X, the
\* masks put on y and xy, and the removal asked for with na_rm, which takes
\* the data of X, y and xy without their masks.  nomask: no row was ever
\* assigned to X, whose mask is then the scalar nomask, which has no axis 1
extract_finish(field, na_rm, samples, X, nomask, y, xy) ==
    IF nomask
    THEN [err |-> "AxisError", X |-> <<>>, y |-> <<>>, xy |-> <<>>, samples |-> samples]
    ELSE IF field # "none" /\ na_rm /\ Len(y) # Len(X)
    THEN [err |-> "MaskError", X |-> <<>>, y |-> <<>>, xy |-> <<>>, samples |-> samples]
    ELSE IF field # "none" /\ na_rm /\ Len(xy) # Len(X)
    THEN [err |-> "MaskError", X |-> <<>>, y |-> <<>>, xy |-> <<>>, samples |-> samples]
    ELSE [err |-> "none", X |-> IF na_rm THEN getdata(X) ELSE X,
          y |-> IF field = "none" THEN <<>> ELSE y, xy |-> xy, samples |-> samples]

ExtractError(e) == [err |-> e, X |-> <<>>, y |-> <<>>, xy |-> <<>>, samples |-> <<>>]

\* Raster.extract_vector(response, field, return_array=True, duplicates,
\* na_rm, low_memory).  response is [geom |-> the geometry type of all its
\* rows, shapes |-> the rows]; a point has xy and a label, a polygon or a
\* line the pixels it is rasterized to and a label.  field is "none", "str"
\* (a column name) or "list" (a list holding a column name)
extract_vector(r, response, field, duplicates, na_rm, low_memory) ==
    IF duplicates \notin duplicate_methods THEN ExtractError("ValueError")
    ELSE IF response.geom \in {"Polygon", "LineString"}
    THEN LET burned == shape_pixels(response.shapes, 1)
             pixels == [i \in 1..Len(burned) |-> burned[i].pixel]
             y == IF field = "none" THEN <<>>
                  ELSE [i \in 1..Len(burned) |-> Label(burned[i].y)]
             xy == [i \in 1..Len(pixels) |-> xy_of(r, pixels[i])]
         IN  IF low_memory
             THEN Eval(extract_xy(r, xy), LAMBDA got :
                    IF got.err # "none" THEN ExtractError(got.err)
                    ELSE extract_finish(field, na_rm, pixels, got.values,
                                        Len(got.values) = 0, y, xy))
             ELSE Eval(_extract_by_indices(r, pixels), LAMBDA got :
                    IF got.err # "none" THEN ExtractError(got.err)
                    ELSE extract_finish(field, na_rm, pixels, got.X, FALSE, y, xy))
    ELSE
    LET all_xy == [i \in 1..Len(response.shapes) |-> response.shapes[i].xy]
        keep == valid_idx(r, all_xy)
        xy == KeepIdx(all_xy, keep, 1)
        labels == KeepIdx([i \in 1..Len(response.shapes) |-> response.shapes[i].label],
                          keep, 1)
        pixels == [i \in 1..Len(xy) |-> rowcol(r, xy[i])]
    IN  IF duplicates # "keep" /\ field = "none"
        THEN ExtractError(IF Len(xy) = 1 THEN "TypeError" ELSE "ValueError")
        ELSE IF duplicates # "keep" /\ field = "str"
        THEN ExtractError("TypeError")
        \* the row and col columns of a frame without rows are float64:
        \* arr[rows, cols] of _extract_by_indices refuses them
        ELSE IF duplicates # "keep" /\ ~low_memory /\ Len(xy) = 0
        THEN ExtractError("IndexError")
        ELSE
        Eval(IF duplicates # "keep" THEN group_duplicates(duplicates, pixels, labels)
             ELSE [pixels |-> pixels, y |-> [i \in 1..Len(labels) |-> Label(labels[i])]],
             LAMBDA grouped :
               IF low_memory
               THEN Eval(extract_xy(r, xy), LAMBDA got :
                      IF got.err # "none" THEN ExtractError(got.err)
                      ELSE extract_finish(field, na_rm, pixels, got.values,
                                          Len(got.values) = 0, grouped.y, xy))
               ELSE Eval(_extract_by_indices(r, grouped.pixels), LAMBDA got :
                      IF got.err # "none" THEN ExtractError(got.err)
                      ELSE extract_finish(field, na_rm, grouped.pixels, got.X, FALSE,
                                          grouped.y, xy)))

\* Raster.extract_raster(response, return_array=True, na_rm): response is
\* the sequence of its labelled pixels in row-major order, each with its
\* label
extract_raster(r, response, na_rm) ==
    LET pixels == [i \in 1..Len(response) |-> response[i].pixel]
        xy == [i \in 1..Len(pixels) |-> xy_of(r, pixels[i])]
        y == [i \in 1..Len(response) |-> Label(response[i].label)]
        got == _extract_by_indices(r, pixels)
        X == got.X
        kept == IF na_rm THEN {i \in 1..Len(X) : ~row_masked(X, i)} ELSE 1..Len(X)
    IN  IF got.err # "none" THEN ExtractError(got.err)
        ELSE [err |-> "none",
              X |-> IF na_rm THEN getdata(KeepIdx(X, kept, 1)) ELSE X,
              y |-> KeepIdx(y, kept, 1),
              xy |-> KeepIdx(xy, kept, 1),
              samples |-> pixels]

NoExt ==
    [name |-> "none", err |-> "none", points |-> <<>>, geom |-> "none",
     field |-> "none", duplicates |-> "none", na_rm |-> FALSE,
     low_memory |-> FALSE, X |-> <<>>, y |-> <<>>, xy |-> <<>>, samples |-> <<>>,
     other_err |-> "none", other_X |-> <<>>]


NoPrd == [img |-> <<>>, estimator |-> NoEstimator, raw |-> <<>>, prob |-> <<>>, done |-> FALSE]

(***************************************************************************)
(* crop                                                                    *)
(***************************************************************************)
\* Affine(aff.a, aff.b, xmin, aff.d, aff.e, ymin): the transform aff moved
\* to the origin (xmin, ymin), as the number that identifies it
cropped_transform(aff, xmin, ymin) == 10000 * aff + 100 * xmin + ymin

\* BaseRaster._newraster(file_path, names) on the file of count bands that
\* calc, predict or crop wrote: from_files, whose names are those of the
\* file's bands, and rename of each to the name given at its position, one
\* entry of the dict after the other
_newraster(count, names) ==
    LET made == output_names(count)
        layers == [i \in 1..count |-> RasterLayer(0, i)]
        stack == [names |-> made,
                  loc |-> [i \in 1..count |-> [k |-> made[i], v |-> layers[i]]],
                  attrs |-> [a \in Range(made) |-> layers[IndexOf(made, a)]]]
        zipped == IF Len(names) < count THEN Len(names) ELSE count
    IN  rename(stack, [i \in 1..zipped |-> [old |-> made[i], new |-> names[i]]])

\* BaseRaster.crop(bounds) with bounds = (xmin, ymin, xmax, ymax): the window
\* of the two corners is read, which raises when a band does not fit it;
\* then width, height, transform, driver and
\* nodata are assigned on meta, the dict self.meta refers to; then the
\* destination is opened with that meta
crop(r, bbox) ==
    LET xmin == bbox[1]
        ymin == bbox[2]
        xmax == bbox[3]
        ymax == bbox[4]
        rows == {rowcol(r, <<xmin, ymin>>)[1], rowcol(r, <<xmax, ymax>>)[1]}
        cols == {rowcol(r, <<xmin, ymin>>)[2], rowcol(r, <<xmax, ymax>>)[2]}
        window == Window(MinOf(cols), MinOf(rows), MaxOf(cols) - MinOf(cols),
                         MaxOf(rows) - MinOf(rows))
        cropped == read_array(r, window, NoShape)
    IN  IF cropped.err # "none"
        THEN [r |-> r, err |-> cropped.err, window |-> window, cropped_arr |-> <<>>]
        ELSE
        [r |-> [r EXCEPT !.meta =
                   [@ EXCEPT !.width = MaxOf(cols) - MinOf(cols),
                             !.height = MaxOf(rows) - MinOf(rows),
                             !.transform = cropped_transform(r.transform, xmin, ymin),
                             !.driver = "GTiff",
                             !.nodata = ToString(nodata \div 2)]],
         err |-> IF in_dtype_range(nodata, r.meta.dtype) THEN "none" ELSE "ValueError",
         window |-> window,
         cropped_arr |-> cropped.arr]

(***************************************************************************)
(* Sampling                                                                *)
(***************************************************************************)
\* n = size - len(valid_samples): what the next round draws
deficit(size, valid_samples) == size - Len(valid_samples)

\* the positions marked in sample_raster, in the row-major order of
\* np.nonzero: a position drawn twice is there once
marked_positions(r, draw) ==
    KeepIdx([k \in 1..(r.width * r.height) |->
                <<(k - 1) \div r.width, (k - 1) % r.width>>],
            {k \in 1..(r.width * r.height) :
                <<(k - 1) \div r.width, (k - 1) % r.width>> \in Range(draw)}, 1)

\* one round of the random mode of sample for the positions drawn:
\* draw[k] is (Ysample[k], Xsample[k]).  The positions are marked in a
\* raster; their pixels are read with extract_xy, whose error ends the
\* call, and the rows with a masked value are left out
sample_round(r, draw) ==
    Eval(marked_positions(r, draw), LAMBDA marked :
      Eval([i \in 1..Len(marked) |-> xy_of(r, marked[i])], LAMBDA xy :
        Eval(extract_xy(r, xy), LAMBDA got :
          Eval({i \in 1..Len(got.values) : ~row_masked(got.values, i)}, LAMBDA valid :
            [err |-> got.err,
             samples |-> KeepIdx(got.values, valid, 1),
             xy |-> IF got.err = "none" THEN KeepIdx(xy, valid, 1) ELSE <<>>]))))

\* the pixels of a strata raster that hold the category cat, in row-major
\* order: np.transpose(np.nonzero(strata_arr == cat))
strata_ind(r, strata, cat) ==
    KeepIdx([k \in 1..Len(strata) |-> <<(k - 1) \div r.width, (k - 1) % r.width>>],
            {k \in 1..Len(strata) : strata[k] = cat}, 1)

\* the value a strata raster holds where it has no data
strata_nodata == 0

\* the categories of a strata raster in ascending order: np.unique without
\* the no-data value
RECURSIVE Ascending(_)
Ascending(S) ==
    IF S = {} THEN <<>>
    ELSE LET m == CHOOSE m \in S : \A x \in S : m <= x
         IN  <<m>> \o Ascending(S \ {m})

strata_categories(strata) == Ascending(Range(strata) \ {strata_nodata})

\* the stratified mode of sample: for each category the positions
\* ind[sample] for the size indices drawn (draws[cat][k], from 1), a Warning
\* object being built and dropped when size exceeds the pixels of the
\* category; then the pixels are read with extract_xy
RECURSIVE sample_strata(_, _, _, _, _)
sample_strata(r, strata, size, draws, c) ==
    LET categories == strata_categories(strata)
    IN  IF c > Len(categories)
        THEN [selected |-> <<>>, warning_objects |-> 0, warnings_issued |-> 0]
        ELSE LET cat == categories[c]
                 ind == strata_ind(r, strata, cat)
                 rest == sample_strata(r, strata, size, draws, c + 1)
             IN  [selected |-> [k \in 1..size |-> [cat |-> cat, pixel |-> ind[draws[cat][k]]]]
                               \o rest.selected,
                  warning_objects |-> (IF size > Len(ind) THEN 1 ELSE 0)
                                      + rest.warning_objects,
                  warnings_issued |-> rest.warnings_issued]

NoSmp ==
    [mode |-> "none", size |-> 0, n |-> 0, round |-> 0, draw |-> <<>>,
     valid_samples |-> <<>>, valid_coordinates |-> <<>>, satisfied |-> FALSE,
     strata |-> <<>>, selected |-> <<>>, warnings |-> 0, err |-> "none"]

(***************************************************************************)
(* The calls made on the stack                                             *)
(***************************************************************************)
NoLabels == [ints |-> {}, strs |-> {}]

NoOp ==
    [name |-> "init", err |-> "none", warnings |-> 0, layers |-> <<>>,
     labels |-> NoLabels, mapping |-> <<>>, other_names |-> <<>>,
     other_layers |-> <<>>, resampling |-> "", bands_read |-> 0,
     dtype |-> "None", shape |-> <<>>, window |-> NoWindow,
     out_shape |-> NoShape, key |-> <<>>, value |-> NoValue]

\* names a caller may rename a layer to
NewNames == {<<"a">>, <<"b">>, <<"y">>}

\* rename mappings over the names in olds: at most n entries with
\* distinct keys
Mappings(olds, n) ==
    {m \in SeqsUpTo([old : olds, new : NewNames], n) :
        \A i, j \in 1..Len(m) : i # j => m[i].old # m[j].old}

\* file lists whose bands fit in n more members
FileLists(maxfiles, n) ==
    {fs \in SeqsUpTo(FileIds, maxfiles) : Len(Bands(fs, 1)) <= n}

\* no call is in progress or being looked at
Idle == op = NoOp

Constructed == Idle /\ raster # EmptyRaster

MayCall == Constructed /\ calls < MaxCalls

\* Raster(layers), from_files(file_path) when mixed is empty, for at most
\* maxfiles files: a failed constructor returns no object
Construct(maxfiles) ==
    /\ Idle /\ raster = EmptyRaster
    /\ \E fs \in FileLists(maxfiles, MaxLayers), mixed \in {<<>>, <<OtherObject>>} :
          \E layers \in {Bands(fs, 1) \o mixed} :
          \E res \in {SetLayers(EmptyRaster, layers)} :
              /\ raster' = IF res.err = "none" THEN res.r ELSE EmptyRaster
              /\ op' = [NoOp EXCEPT !.name = "Raster", !.err = res.err,
                                    !.warnings = res.warnings, !.layers = layers]
    /\ pre' = raster
    /\ UNCHANGED <<calls, dtypes_in, dtype_out, blk, prd, ext, smp, drawn>>

NewRaster == Construct(MaxSeedFiles)

BuildRaster == Construct(MaxFiles)

\* raster.append(other), other built by from_files and possibly renamed
AppendRaster ==
    /\ MayCall
    /\ \E fs \in FileLists(MaxOtherFiles, MaxLayers - Len(raster.layers)) :
          \E built \in {from_files(fs)} :
              /\ built.err = "none"
              /\ \E m \in {<<>>} \cup Mappings(Range(built.r.names), MaxOtherRename) :
                    \E other \in {rename(built.r, m)} :
                    \E res \in {append(raster, other.r)} :
                        /\ other.err = "none"
                        /\ raster' = res.r
                        /\ op' = [NoOp EXCEPT !.name = "append", !.err = res.err,
                                              !.other_names = other.r.names,
                                              !.other_layers = other.r.layers]
    /\ pre' = raster
    /\ calls' = calls + 1
    /\ UNCHANGED <<dtypes_in, dtype_out, blk, prd, ext, smp, drawn>>

\* raster.drop(labels) with positions, with names, or with both
DropLayers ==
    /\ MayCall
    /\ \E ints \in SUBSET (0..(MaxLayers - 1)),
          strs \in SUBSET (Range(raster.names) \cup Keys(raster.loc)) :
          \E labels \in {[ints |-> ints, strs |-> strs]} :
          \E res \in {drop(raster, labels)} :
              /\ ints # {} \/ strs # {}
              /\ (ints # {} /\ strs # {}) => Cardinality(ints) + Cardinality(strs) = 2
              /\ raster' = res.r
              /\ op' = [NoOp EXCEPT !.name = "drop", !.err = res.err,
                                    !.labels = labels]
    /\ pre' = raster
    /\ calls' = calls + 1
    /\ UNCHANGED <<dtypes_in, dtype_out, blk, prd, ext, smp, drawn>>

\* raster.rename(names)
RenameLayers ==
    /\ MayCall
    /\ \E m \in Mappings(Range(raster.names) \cup Keys(raster.loc), MaxRename) :
          \E res \in {rename(raster, m)} :
              /\ raster' = res.r
              /\ op' = [NoOp EXCEPT !.name = "rename", !.err = res.err,
                                    !.mapping = m]
    /\ pre' = raster
    /\ calls' = calls + 1
    /\ UNCHANGED <<dtypes_in, dtype_out, blk, prd, ext, smp, drawn>>

\* names a caller may pass as resampling
ResamplingNames ==
    Range(Resampling) \cup {"cubic-spline", "NEAREST", ""}

\* raster.read(resampling=name)
ReadRaster ==
    /\ Constructed
    /\ \E name \in ResamplingNames :
          LET res == read(raster, name)
          IN  op' = [NoOp EXCEPT !.name = "read", !.err = res.err,
                                 !.resampling = name,
                                 !.bands_read = res.bands_read]
    /\ raster' = raster
    /\ pre' = raster
    /\ UNCHANGED <<calls, dtypes_in, dtype_out, blk, prd, ext, smp, drawn>>

\* names a caller may look up besides the names the stack has or had
LookupNames ==
    {<<"count">>, <<"names">>, <<"read">>, <<"width">>, <<"__getstate__">>, <<"q">>}

\* raster[layername]
GetItem ==
    /\ Constructed
    /\ \E layername \in Range(raster.names) \cup (DOMAIN raster.attrs)
                            \cup LookupNames :
       \E python \in PythonVersions :
       \E res \in {__getitem__(raster, layername, python)} :
          op' = [NoOp EXCEPT !.name = "getitem", !.err = res.err,
                             !.key = layername, !.value = res.value]
    /\ raster' = raster
    /\ pre' = raster
    /\ UNCHANGED <<calls, dtypes_in, dtype_out, blk, prd, ext, smp, drawn>>

\* the caller has looked at the outcome of the last call and goes on
Return ==
    /\ ~Idle
    /\ op.err # "pending"
    /\ op' = NoOp
    /\ pre' = EmptyRaster
    /\ blk' = NoBlock
    /\ UNCHANGED <<raster, calls, dtypes_in, dtype_out, prd, ext, smp, drawn>>

(***************************************************************************)
(* calc, predict and windowed reads                                        *)
(***************************************************************************)
\* dtypes a caller asks calc and predict to write
BlockDtypes == {"float32", "int16"}

\* the indexes argument of predict for an estimator of n classes
IndexChoices(n) ==
    {NoIndexes}
        \cup {[kind |-> "int", at |-> <<k>>] : k \in 0..(n - 1)}
        \cup {[kind |-> "list", at |-> l] : l \in SeqsUpTo(0..(n - 1), MaxIndexes)}

BlockStack == Construct(MaxBlockFiles)

MayBlock == Constructed /\ calls < MaxBlockCalls

\* raster.calc(function, dtype=, nodata=, progress=) up to the opening of
\* the destination: the probe read of Window(0, 0, 1, self.width), which
\* raises when a band does not fit it, the band count, the update of meta,
\* and rasterio.open, which refuses a nodata the dtype does not hold; then
\* the windows.  ds_err and ds_indexes are the outcome of the module-level
\* calc on the dataset of the stack up to the same point
CalcCall ==
    /\ MayBlock
    /\ \E function \in Functions, dtype \in BlockDtypes, progress \in BOOLEAN,
          fill_value \in NodataValues, numpy \in NumpyRules,
          tuple_window \in TupleWindows :
          IF read_bands(raster, Window(0, 0, 1, raster.width), NoShape).err # "none"
          THEN /\ raster' = raster
               /\ blk' = [NoBlock EXCEPT !.phase = "failed", !.kind = "calc",
                             !.function = function, !.dtype = dtype,
                             !.progress = progress, !.numpy = numpy,
                             !.nodata = fill_value]
               /\ op' = [NoOp EXCEPT !.name = "calc", !.err = "ValueError"]
          ELSE IF function_ndim(function) > 2
          THEN \E updated \in {meta_update(raster, raster.count, dtype, fill_value)} :
                 /\ raster' = updated
                 /\ IF in_dtype_range(fill_value, dtype)
                    THEN /\ blk' = [NoBlock EXCEPT !.phase = "loop", !.kind = "calc",
                                       !.function = function, !.dtype = dtype,
                                       !.progress = progress, !.count = raster.count,
                                       !.opened = TRUE, !.numpy = numpy,
                                       !.nodata = fill_value,
                                       !.ds_err = IF SingleDataset(raster)
                                                  THEN dataset_probe_err(tuple_window)
                                                  ELSE "none",
                                       !.ds_indexes =
                                           IF SingleDataset(raster)
                                              /\ dataset_probe_err(tuple_window) = "none"
                                           THEN dataset_calc_indexes(raster.count)
                                           ELSE <<>>,
                                       !.windows = block_windows(updated.meta.width,
                                                                 updated.meta.height,
                                                                 raster.count, dtype)]
                         /\ op' = [NoOp EXCEPT !.name = "calc", !.err = "pending"]
                    ELSE /\ blk' = [NoBlock EXCEPT !.phase = "failed", !.kind = "calc",
                                       !.function = function, !.dtype = dtype,
                                       !.progress = progress, !.count = raster.count,
                                       !.numpy = numpy, !.nodata = fill_value]
                         /\ op' = [NoOp EXCEPT !.name = "calc", !.err = "ValueError"]
          ELSE /\ raster' = raster
               /\ blk' = [NoBlock EXCEPT !.phase = "failed", !.kind = "calc",
                             !.function = function, !.dtype = dtype,
                             !.progress = progress, !.numpy = numpy,
                             !.nodata = fill_value]
               /\ op' = [NoOp EXCEPT !.name = "calc", !.err = "TypeError"]
    /\ pre' = raster
    /\ calls' = calls + 1
    /\ UNCHANGED <<dtypes_in, dtype_out, prd, ext, smp, drawn>>

\* the predict_type argument: the two documented values and another string
PredictTypes == {"raw", "prob", "class"}

\* len(indexes) of line 865 is defined: no branch of the output count has
\* replaced an indexes that is None or an integer
len_defined(predict_type, given) ==
    predict_type \in {"raw", "prob"} \/ given.kind = "list"

\* raster.predict(estimator, predict_type=, indexes=, dtype=, nodata=,
\* progress=) up to the opening of the destination, which rasterio.open
\* refuses for a nodata the dtype does not hold.  With 'prob' and indexes
\* None the first row is read as a probe, which raises when a band does
\* not fit it.  ds_err and ds_indexes are the outcome of the module-level
\* predict on the dataset of the stack up to the same point
PredictCall ==
    /\ MayBlock
    /\ \E classes \in 2..MaxClasses, predict_type \in PredictTypes,
          dtype \in BlockDtypes, progress \in BOOLEAN, fill_value \in NodataValues,
          tuple_window \in TupleWindows :
       \E given \in IndexChoices(classes) :
          IF /\ predict_type = "prob" /\ given.kind = "none"
             /\ read_bands(raster, Window(0, 0, raster.width, 1), NoShape).err # "none"
          THEN
              /\ raster' = raster
              /\ blk' = [NoBlock EXCEPT !.phase = "failed", !.kind = "predict",
                            !.estimator = [classes |-> classes],
                            !.predict_type = predict_type, !.given = given,
                            !.dtype = dtype, !.progress = progress,
                            !.nodata = fill_value]
              /\ op' = [NoOp EXCEPT !.name = "predict", !.err = "ValueError"]
          ELSE IF len_defined(predict_type, given)
          THEN
            \E probes \in {SingleDataset(raster) /\ predict_type = "prob"
                              /\ given.kind = "none"} :
            \E ds_err \in {IF probes THEN dataset_probe_err(tuple_window) ELSE "none"} :
            \E indexes \in {predict_indexes(predict_type, given, [classes |-> classes])} :
            \E updated \in {meta_update(raster, Len(indexes), dtype, fill_value)} :
              /\ raster' = updated
              /\ IF in_dtype_range(fill_value, dtype)
                 THEN
                   /\ blk' = [NoBlock EXCEPT !.phase = "loop", !.kind = "predict",
                                 !.estimator = [classes |-> classes],
                                 !.predict_type = predict_type, !.indexes = indexes,
                                 !.given = given,
                                 !.dtype = dtype, !.progress = progress,
                                 !.count = Len(indexes),
                                 !.opened = TRUE, !.nodata = fill_value,
                                 !.ds_err = ds_err,
                                 !.ds_indexes =
                                     IF SingleDataset(raster) /\ ds_err = "none"
                                     THEN dataset_predict_indexes(predict_type, given,
                                              [classes |-> classes],
                                              dataset_probe_samples(raster))
                                     ELSE <<>>,
                                 !.windows = block_windows(updated.meta.width,
                                                           updated.meta.height,
                                                           Len(indexes), dtype)]
                   /\ op' = [NoOp EXCEPT !.name = "predict", !.err = "pending"]
                 ELSE
                   /\ blk' = [NoBlock EXCEPT !.phase = "failed", !.kind = "predict",
                                 !.estimator = [classes |-> classes],
                                 !.predict_type = predict_type, !.indexes = indexes,
                                 !.given = given,
                                 !.dtype = dtype, !.progress = progress,
                                 !.count = Len(indexes), !.nodata = fill_value]
                   /\ op' = [NoOp EXCEPT !.name = "predict", !.err = "ValueError"]
          ELSE
              /\ raster' = raster
              /\ blk' = [NoBlock EXCEPT !.phase = "failed", !.kind = "predict",
                            !.estimator = [classes |-> classes],
                            !.predict_type = predict_type, !.given = given,
                            !.dtype = dtype, !.progress = progress,
                            !.nodata = fill_value]
              /\ op' = [NoOp EXCEPT !.name = "predict", !.err = "TypeError"]
    /\ pre' = raster
    /\ calls' = calls + 1
    /\ UNCHANGED <<dtypes_in, dtype_out, prd, ext, smp, drawn>>

\* the boxes a caller crops a stack to: its extent, and the extent without
\* its lowest rows
CropBounds(r) ==
    {<<0, Res * k, Res * r.width, Res * r.height>> : k \in 0..(r.height - 1)}

\* raster.crop(bounds): the window is read and written to the destination,
\* which is opened again as the Raster returned and renamed to the names of
\* the source; rasterio.open refuses a nodata the dtype of the stack does
\* not hold
CropCall ==
    /\ MayBlock
    /\ \E bbox \in CropBounds(raster) :
       \E res \in {crop(raster, bbox)} :
       \E new \in {_newraster(raster.count, raster.names)} :
          /\ raster' = res.r
          /\ IF res.err # "none"
             THEN /\ blk' = [NoBlock EXCEPT !.phase = "failed", !.kind = "crop",
                                !.count = raster.count,
                                !.windows = <<res.window>>]
                  /\ op' = [NoOp EXCEPT !.name = "crop", !.err = res.err,
                                        !.window = res.window]
             ELSE /\ blk' = [NoBlock EXCEPT
                                !.phase = IF new.err = "none" THEN "done" ELSE "failed",
                                !.kind = "crop",
                                !.opened = TRUE, !.count = raster.count,
                                !.windows = <<res.window>>,
                                !.out = <<res.cropped_arr>>,
                                !.names = new.r.names,
                                !.keys = [i \in 1..Len(new.r.loc) |-> new.r.loc[i].k]]
                  /\ op' = [NoOp EXCEPT !.name = "crop", !.err = new.err,
                                        !.window = res.window]
    /\ pre' = raster
    /\ calls' = calls + 1
    /\ UNCHANGED <<dtypes_in, dtype_out, prd, ext, smp, drawn>>

\* the window loop asks the generator for the next array:
\* self.read(window=window, masked=True), which raises, with the
\* destination open, when a band does not fit the window
BlockRead ==
    /\ blk.phase = "loop"
    /\ blk.i <= Len(blk.windows)
    /\ blk.arr = <<>>
    /\ \E res \in {read_array(raster, blk.windows[blk.i], NoShape)} :
          IF res.err # "none"
          THEN /\ blk' = [blk EXCEPT !.phase = "failed"]
               /\ op' = [op EXCEPT !.err = res.err]
          ELSE /\ blk' = [blk EXCEPT !.arr = res.arr,
                                     !.log = Append(@, <<"read", blk.i>>)]
               /\ op' = op
    /\ UNCHANGED <<raster, pre, calls, dtypes_in, dtype_out, prd, ext, smp, drawn>>

\* the body of the window loop: the function or the prediction, the fill,
\* the cast and dst.write at the window; calling a predfun that was never
\* assigned raises, with the destination open, and so does a fill that
\* numpy refuses.  The result of calc has the dtype of the array read,
\* self.meta['dtype'].  ds_out follows what the module-level function of
\* the same name writes at the window for the same arguments
BlockWrite ==
    /\ blk.phase = "loop"
    /\ blk.arr # <<>>
    /\ IF blk.kind = "predict" /\ ~predfun_bound(blk.predict_type)
       THEN /\ blk' = [blk EXCEPT !.phase = "failed", !.arr = <<>>]
            /\ op' = [op EXCEPT !.err = "UnboundLocalError"]
       ELSE IF blk.kind = "calc"
                  /\ fill_refused(raster.meta.dtype, blk.nodata, blk.numpy)
       THEN /\ blk' = [blk EXCEPT !.phase = "failed", !.arr = <<>>]
            /\ op' = [op EXCEPT !.err = "TypeError"]
       ELSE /\ \E result \in
                   {IF blk.kind = "calc" THEN function_apply(blk.function, blk.arr)
                    ELSE take(predfun(blk.predict_type, blk.arr, blk.estimator),
                              blk.indexes)} :
                  blk' = [blk EXCEPT !.out = Append(@,
                                         filled(result,
                                                IF blk.kind = "calc" THEN raster.meta.dtype
                                                ELSE predfun_dtype(blk.predict_type),
                                                blk.dtype, blk.nodata)),
                                     !.ds_out =
                                         IF SingleDataset(raster) /\ blk.ds_err = "none"
                                         THEN Append(@,
                                           dataset_write(blk.kind, blk.function,
                                             blk.predict_type, blk.estimator,
                                             blk.ds_indexes,
                                             dataset_read(raster, blk.windows[blk.i]),
                                             dataset_dtype(raster),
                                             blk.dtype, blk.nodata, blk.numpy))
                                         ELSE @,
                                     !.log = Append(@, <<"write", blk.i>>),
                                     !.i = @ + 1,
                                     !.arr = <<>>]
            /\ op' = op
    /\ UNCHANGED <<raster, pre, calls, dtypes_in, dtype_out, prd, ext, smp, drawn>>

\* the windows are exhausted: the destination is closed and opened again as
\* the Raster that is returned; names are its names and keys the keys of its
\* loc, in order: predict assigns the prob names to raster.names alone
BlockDone ==
    /\ blk.phase = "loop"
    /\ blk.i > Len(blk.windows)
    /\ blk' = [blk EXCEPT !.phase = "done",
                  !.names = IF blk.kind = "predict" /\ Len(blk.indexes) > 1
                            THEN [k \in 1..blk.count |-> <<"prob", ToString(k)>>]
                            ELSE output_names(blk.count),
                  !.keys = output_names(blk.count)]
    /\ op' = [op EXCEPT !.err = "none"]
    /\ UNCHANGED <<raster, pre, calls, dtypes_in, dtype_out, prd, ext, smp, drawn>>

\* windows and output shapes a caller reads with
ReadWindows == {NoWindow, Window(0, 0, 1, 1)}

ReadShapes == {NoShape, <<2, 2>>}

\* raster.read(masked=True, window=, out_shape=) with the default resampling
ReadWindow ==
    /\ Constructed
    /\ \E window \in ReadWindows, out_shape \in ReadShapes :
       \E res \in {read_array(raster, window, out_shape)} :
          op' = [NoOp EXCEPT !.name = "read_array", !.err = res.err,
                             !.resampling = "nearest",
                             !.bands_read = res.bands_read,
                             !.dtype = res.dtype, !.shape = res.shape,
                             !.window = window, !.out_shape = out_shape]
    /\ raster' = raster
    /\ pre' = raster
    /\ UNCHANGED <<calls, dtypes_in, dtype_out, blk, prd, ext, smp, drawn>>

(***************************************************************************)
(* Extraction calls                                                        *)
(***************************************************************************)
\* the stacks that are extracted from and sampled
ExtractFiles == {<<6, 7>>, <<5, 5>>, <<1, 4>>, <<5, 1>>}

\* points around a stack: three in the first pixel, one in the last pixel,
\* one in the pixel below the first, one on each edge of the extent and one
\* beyond it
NearPoints(r) ==
    {<<1, bounds(r).top - 1>>, <<3, bounds(r).top - 2>>, <<2, bounds(r).top - 3>>,
     <<bounds(r).right - 2, 2>>, <<2, bounds(r).top - Res - 2>>}

EdgePoints(r) ==
    {<<0, bounds(r).top - 1>>, <<1, bounds(r).top>>, <<bounds(r).right, 2>>,
     <<1, 0>>, <<bounds(r).right + 1, 1>>}

\* the pixels of a grid in row-major order
GridPixels(r) ==
    [k \in 1..(r.width * r.height) |-> <<(k - 1) \div r.width, (k - 1) % r.width>>]

\* what polygons and lines are rasterized to: the first pixel, the first
\* row, the first column
ShapePixels(r) ==
    {<< <<0, 0>> >>, [j \in 1..r.width |-> <<0, j - 1>>], [i \in 1..r.height |-> <<i - 1, 0>>]}

ExtractIdle == ext = NoExt /\ raster # EmptyRaster

\* raster.extract_xy(xy)
ExtractXY ==
    /\ ExtractIdle
    /\ \E xy \in SeqsUpTo(NearPoints(raster) \cup EdgePoints(raster), MaxPoints) :
       \E got \in {extract_xy(raster, xy)} :
          ext' = [NoExt EXCEPT !.name = "extract_xy", !.err = got.err,
                               !.points = xy, !.X = got.values]
    /\ UNCHANGED <<raster, op, pre, calls, dtypes_in, dtype_out, blk, prd, smp, drawn>>

\* raster.extract_vector(response, field, True, duplicates, na_rm,
\* low_memory) on points, the i-th of which has the label 2 * i
ExtractPoints ==
    /\ ExtractIdle
    /\ \E xy \in SeqsUpTo(NearPoints(raster) \cup {<<0, bounds(raster).top - 1>>},
                          MaxPoints),
          field \in {"none", "str", "list"},
          duplicates \in duplicate_methods \cup {"first"},
          na_rm \in BOOLEAN, low_memory \in BOOLEAN :
       \E response \in {[geom |-> "Point",
                         shapes |-> [i \in 1..Len(xy) |-> [xy |-> xy[i], label |-> 2 * i]]]} :
       \E got \in {extract_vector(raster, response, field, duplicates, na_rm, low_memory)},
          other \in {extract_vector(raster, response, field, duplicates, na_rm, ~low_memory)} :
          ext' = [NoExt EXCEPT !.name = "extract_vector", !.err = got.err,
                               !.other_err = other.err, !.other_X = other.X,
                               !.points = response.shapes, !.geom = "Point",
                               !.field = field, !.duplicates = duplicates,
                               !.na_rm = na_rm, !.low_memory = low_memory,
                               !.X = got.X, !.y = got.y, !.xy = got.xy,
                               !.samples = got.samples]
    /\ UNCHANGED <<raster, op, pre, calls, dtypes_in, dtype_out, blk, prd, smp, drawn>>

\* the same on polygons or on lines, the i-th of which has the label 2 * i;
\* other_err and other_X are the outcome of the same call made with the
\* other value of low_memory
ExtractShapes ==
    /\ ExtractIdle
    /\ \E pixels \in SeqsUpTo(ShapePixels(raster), MaxShapes),
          geom \in {"Polygon", "LineString"},
          field \in {"none", "str"},
          duplicates \in duplicate_methods,
          na_rm \in BOOLEAN, low_memory \in BOOLEAN :
       \E response \in {[geom |-> geom,
                         shapes |-> [i \in 1..Len(pixels) |->
                                        [pixels |-> pixels[i], label |-> 2 * i]]]} :
       \E got \in {extract_vector(raster, response, field, duplicates, na_rm, low_memory)},
          other \in {extract_vector(raster, response, field, duplicates, na_rm, ~low_memory)} :
          ext' = [NoExt EXCEPT !.name = "extract_vector", !.err = got.err,
                               !.other_err = other.err, !.other_X = other.X,
                               !.points = response.shapes, !.geom = geom,
                               !.field = field, !.duplicates = duplicates,
                               !.na_rm = na_rm, !.low_memory = low_memory,
                               !.X = got.X, !.y = got.y, !.xy = got.xy,
                               !.samples = got.samples]
    /\ UNCHANGED <<raster, op, pre, calls, dtypes_in, dtype_out, blk, prd, smp, drawn>>

\* raster.extract_raster(response, return_array=True, na_rm) for a response
\* raster with at most MaxPoints labelled pixels, the k-th pixel of the grid
\* having the label 2 * k
ExtractRaster ==
    /\ ExtractIdle
    /\ \E S \in SUBSET (1..(raster.width * raster.height)), na_rm \in BOOLEAN :
       \E response \in {KeepIdx([k \in 1..(raster.width * raster.height) |->
                                    [pixel |-> GridPixels(raster)[k], label |-> 2 * k]],
                                S, 1)} :
       \E got \in {extract_raster(raster, response, na_rm)} :
          /\ Cardinality(S) <= MaxPoints
          /\ ext' = [NoExt EXCEPT !.name = "extract_raster", !.err = got.err,
                                  !.points = response, !.field = "str",
                                  !.na_rm = na_rm,
                                  !.X = got.X, !.y = got.y, !.xy = got.xy,
                                  !.samples = got.samples]
    /\ UNCHANGED <<raster, op, pre, calls, dtypes_in, dtype_out, blk, prd, smp, drawn>>

(***************************************************************************)
(* sample                                                                  *)
(***************************************************************************)
\* the stacks that are sampled: one without a no-data pixel, one with, one
\* whose only pixel is no-data in a band, and one without a no-data pixel
\* whose second member has the first row only
SampleFiles == {<<7>>, <<6>>, <<4>>, <<7, 8>>}

\* strata rasters on the grid of a stack, pixel by pixel in row-major
\* order: categories 1 and 2 with no-data pixels between, and one pixel of
\* category 1 among pixels of category 2
StrataRasters(r) ==
    {[k \in 1..(r.width * r.height) |-> k % 3],
     [k \in 1..(r.width * r.height) |-> IF k = 1 THEN 1 ELSE 2]}

\* raster.sample(size, return_array=True) for a size of at most maxsize:
\* the random mode up to its loop
SampleUpTo(maxsize) ==
    /\ smp = NoSmp
    /\ \E size \in 1..maxsize :
          smp' = [NoSmp EXCEPT !.mode = "random", !.size = size, !.n = size]
    /\ UNCHANGED <<raster, op, pre, calls, dtypes_in, dtype_out, blk, prd, ext, drawn>>

SampleCall == SampleUpTo(MaxSize)

SampleFew == SampleUpTo(MaxFairSize)

\* one round of the loop: n positions are drawn, their valid rows are
\* appended, and the loop ends when size rows are there; an error of
\* extract_xy ends the call.  The rounds made are counted up to MaxRounds
SampleRound ==
    /\ smp.mode = "random"
    /\ ~smp.satisfied
    /\ drawn' \in [1..smp.n -> (0..(raster.height - 1)) \X (0..(raster.width - 1))]
    /\ \E got \in {sample_round(raster, drawn')} :
       \E valid_samples \in {smp.valid_samples \o got.samples} :
          IF got.err # "none"
          THEN smp' = [smp EXCEPT !.mode = "failed", !.err = got.err,
                                  !.round = IF @ < MaxRounds THEN @ + 1 ELSE @,
                                  !.draw = drawn']
          ELSE
          smp' = [smp EXCEPT !.round = IF @ < MaxRounds THEN @ + 1 ELSE @,
                             !.draw = drawn',
                             !.valid_samples = valid_samples,
                             !.valid_coordinates = @ \o got.xy,
                             !.satisfied = Len(valid_samples) >= smp.size,
                             !.n = IF Len(valid_samples) >= smp.size THEN @
                                   ELSE deficit(smp.size, valid_samples)]
    /\ UNCHANGED <<raster, op, pre, calls, dtypes_in, dtype_out, blk, prd, ext>>

\* raster.sample(size, strata, return_array=True): the stratified mode;
\* indices are drawn for the categories the strata raster holds
SampleStrata ==
    /\ smp = NoSmp
    /\ \E size \in 1..MaxSize, strata \in StrataRasters(raster) :
       LET draws(cat) ==
               IF cat \in Range(strata_categories(strata))
               THEN [1..size -> 1..Len(strata_ind(raster, strata, cat))]
               ELSE {<<>>}
       IN
       \E d1 \in draws(1), d2 \in draws(2) :
       \E got \in {sample_strata(raster, strata, size, <<d1, d2>>, 1)} :
       \E values \in {extract_xy(raster, [i \in 1..Len(got.selected) |->
                                           xy_of(raster, got.selected[i].pixel)])} :
          smp' = [NoSmp EXCEPT !.mode = IF values.err = "none" THEN "stratified"
                                         ELSE "failed",
                               !.err = values.err,
                               !.size = size,
                               !.strata = strata, !.draw = <<d1, d2>>,
                               !.selected = got.selected,
                               !.valid_samples = values.values,
                               !.valid_coordinates =
                                   [i \in 1..Len(got.selected) |->
                                       xy_of(raster, got.selected[i].pixel)],
                               !.warnings = got.warnings_issued,
                               !.satisfied = values.err = "none"]
    /\ UNCHANGED <<raster, op, pre, calls, dtypes_in, dtype_out, blk, prd, ext, drawn>>

Init ==
    /\ raster = EmptyRaster
    /\ op = NoOp
    /\ pre = EmptyRaster
    /\ calls = 0
    /\ dtypes_in = <<>>
    /\ dtype_out = "unset"
    /\ blk = NoBlock
    /\ prd = NoPrd
    /\ ext = NoExt
    /\ smp = NoSmp
    /\ drawn = <<>>

Next ==
    \/ NewRaster
    \/ AppendRaster
    \/ DropLayers
    \/ RenameLayers
    \/ ReadRaster
    \/ Return

Spec == Init /\ [][Next]_vars

\* construction followed by reads only
NextRead ==
    \/ BuildRaster
    \/ ReadRaster
    \/ Return

SpecRead == Init /\ [][NextRead]_vars

\* construction, drops and renames, and lookups by name
NextLookup ==
    \/ NewRaster
    \/ DropLayers
    \/ RenameLayers
    \/ GetItem
    \/ Return

SpecLookup == Init /\ [][NextLookup]_vars

(***************************************************************************)
(* dtype promotion as a function of the dtype list                         *)
(***************************************************************************)
\* the dtypes a band can have
DTypes ==
    {"bool", "uint8", "int8", "uint16", "int16", "uint32", "int32", "float32",
     "float64", "complex", "complex64", "complex128"}

InitDtype ==
    /\ raster = EmptyRaster
    /\ op = NoOp
    /\ pre = EmptyRaster
    /\ calls = 0
    /\ dtypes_in \in SeqsUpTo(DTypes, MaxDtypes)
    /\ dtype_out = "unset"
    /\ blk = NoBlock
    /\ prd = NoPrd
    /\ ext = NoExt
    /\ smp = NoSmp
    /\ drawn = <<>>

\* self.dtypes holds the list; _maximum_dtype() is evaluated on it
Promote ==
    /\ dtype_out = "unset"
    /\ dtype_out' = _maximum_dtype(dtypes_in)
    /\ UNCHANGED <<raster, op, pre, calls, dtypes_in, blk, prd, ext, smp, drawn>>

NextDtype == Promote

SpecDtype == InitDtype /\ [][NextDtype]_vars

\* a stack, calc and predict calls on it window by window, and reads
NextBlock ==
    \/ BlockStack
    \/ CalcCall
    \/ PredictCall
    \/ CropCall
    \/ BlockRead
    \/ BlockWrite
    \/ BlockDone
    \/ ReadWindow
    \/ Return

SpecBlock == Init /\ [][NextBlock]_vars

(***************************************************************************)
(* The prediction functions on one window                                  *)
(***************************************************************************)
\* rows and columns of the window
PredShape == <<2, 2>>

\* the windows: every mask over the bands and cells, the values being
\* given by the position
PredImages ==
    UNION {[1..n -> [1..PredShape[1] -> [1..PredShape[2] -> BOOLEAN]]] : n \in 1..MaxBands}

InitPred ==
    /\ raster = EmptyRaster
    /\ op = NoOp
    /\ pre = EmptyRaster
    /\ calls = 0
    /\ dtypes_in = <<>>
    /\ dtype_out = "unset"
    /\ blk = NoBlock
    /\ ext = NoExt
    /\ smp = NoSmp
    /\ drawn = <<>>
    /\ \E masks \in PredImages, classes \in 2..MaxClasses :
          prd = [NoPrd EXCEPT
                   !.img = [f \in 1..Len(masks) |-> [i \in 1..PredShape[1] |->
                              [j \in 1..PredShape[2] |->
                                 [data |-> Whole(f + 2 * i + j) + 1,
                                  mask |-> masks[f][i][j]]]]],
                   !.estimator = [classes |-> classes]]

\* _predfun(img, estimator) and _probfun(img, estimator) on the window
Predfun ==
    /\ ~prd.done
    /\ prd' = [prd EXCEPT !.raw = _predfun(prd.img, prd.estimator),
                          !.prob = _probfun(prd.img, prd.estimator),
                          !.done = TRUE]
    /\ UNCHANGED <<raster, op, pre, calls, dtypes_in, dtype_out, blk, ext, smp, drawn>>

NextPred == Predfun

SpecPred == InitPred /\ [][NextPred]_vars

(***************************************************************************)
(* Extraction from a stack                                                 *)
(***************************************************************************)
InitExtract ==
    /\ raster \in {from_files(fs).r : fs \in ExtractFiles}
    /\ op = NoOp
    /\ pre = EmptyRaster
    /\ calls = 0
    /\ dtypes_in = <<>>
    /\ dtype_out = "unset"
    /\ blk = NoBlock
    /\ prd = NoPrd
    /\ ext = NoExt
    /\ smp = NoSmp
    /\ drawn = <<>>

NextExtract ==
    \/ ExtractXY
    \/ ExtractPoints
    \/ ExtractShapes
    \/ ExtractRaster

SpecExtract == InitExtract /\ [][NextExtract]_vars

(***************************************************************************)
(* Sampling of a stack                                                     *)
(***************************************************************************)
InitSample ==
    /\ raster \in {from_files(fs).r : fs \in SampleFiles}
    /\ op = NoOp
    /\ pre = EmptyRaster
    /\ calls = 0
    /\ dtypes_in = <<>>
    /\ dtype_out = "unset"
    /\ blk = NoBlock
    /\ prd = NoPrd
    /\ ext = NoExt
    /\ smp = NoSmp
    /\ drawn = <<>>

NextSample ==
    \/ SampleCall
    \/ SampleRound
    \/ SampleStrata

SpecSample == InitSample /\ [][NextSample]_vars

\* a round whose draw holds a pixel that is valid in every band
SampleProgress ==
    /\ SampleRound
    /\ Len(smp'.valid_samples) > Len(smp.valid_samples)

\* the loop of the random mode alone
NextSampleLoop ==
    \/ SampleFew
    \/ SampleRound

\* the random mode under fair draws: np.random.choice gives every position
\* a positive probability in every round, so a round that draws a valid
\* pixel, possible in every round of the loop, is eventually made
SpecSampleFair == InitSample /\ [][NextSampleLoop]_vars /\ WF_vars(SampleProgress)

(***************************************************************************)
(* Properties                                                              *)
(***************************************************************************)
IsStack(r) == r # EmptyRaster

AllRasterLayers(layers) == \A i \in 1..Len(layers) : layers[i].cls = "RasterLayer"

\* some member differs from the first in width, height or transform
Misaligned(layers) == \E i \in 1..Len(layers) : Grid(layers[i]) # Grid(layers[1])

Distinct(s) == \A i, j \in 1..Len(s) : i # j => s[i] # s[j]

\* names, loc, iloc and the attributes describe the same members: name i
\* resolves to member i through loc and through getattr, and loc holds one
\* entry per member
LookupConsistent(r) ==
    /\ Len(r.names) = Len(r.iloc)
    /\ Len(r.loc) = Len(r.iloc)
    /\ \A i \in 1..Len(r.names) :
          /\ r.names[i] \in Keys(r.loc)
          /\ Lookup(r.loc, r.names[i]) = r.iloc[i]
          /\ r.names[i] \in DOMAIN r.attrs
          /\ r.attrs[r.names[i]] = r.iloc[i]

\* C1: every attempt to set the member set (construction, append) with a
\* member that differs from the first in width, height or transform ends in
\* a validation error, and so the members of every reachable stack share one
\* grid.
C1_GridInvariant ==
    /\ (op.name = "Raster" /\ Len(op.layers) > 0 /\ AllRasterLayers(op.layers)
            /\ Misaligned(op.layers)) => op.err = "ValueError"
    /\ (op.name = "append" /\ Misaligned(pre.iloc \o op.other_layers))
            => op.err = "ValueError"
    /\ ~Misaligned(raster.iloc)

\* C2: after a construction, an append or a drop that succeeded, the names
\* of the members are pairwise distinct.
C2_NamesDistinct ==
    (op.name \in {"Raster", "append", "drop"} /\ op.err = "none")
        => Distinct(raster.names)

\* the names a mapping gives when applied to all names at once
Substituted(names, m) ==
    [i \in 1..Len(names) |->
        IF \E j \in 1..Len(m) : m[j].old = names[i]
        THEN m[CHOOSE j \in 1..Len(m) : m[j].old = names[i]].new
        ELSE names[i]]

\* C3: a rename of a stack of distinct members whose lookup is consistent, by a mapping that
\* leaves the names distinct (such as the swap {a: b, b: a}), returns with
\* every name resolving to the member at its position and every member
\* reachable under exactly one name.
C3_RenameKeepsLookup ==
    (/\ op.name = "rename"
     /\ Distinct(pre.iloc)
     /\ LookupConsistent(pre)
     /\ \A j \in 1..Len(op.mapping) : op.mapping[j].old \in Range(pre.names)
     /\ Distinct(Substituted(pre.names, op.mapping)))
        => (op.err = "none" /\ LookupConsistent(raster))

\* C4: after S.append(T) the members are S's followed by T's, the names are
\* S's names followed by T's names, and every name is bound to the member it
\* was bound to before (stated for S and T whose members and whose names
\* together are distinct, so that this is possible).
C4_AppendKeepsNames ==
    (/\ op.name = "append"
     /\ op.err = "none"
     /\ LookupConsistent(pre)
     /\ Distinct(pre.iloc \o op.other_layers)
     /\ Distinct(pre.names \o op.other_names))
        => /\ raster.iloc = pre.iloc \o op.other_layers
           /\ raster.names = pre.names \o op.other_names
           /\ \A i \in 1..Len(raster.names) :
                 /\ raster.names[i] \in Keys(raster.loc)
                 /\ Lookup(raster.loc, raster.names[i]) = raster.iloc[i]

\* the positions of r's members that labels designate: by position, or by
\* the name under which loc holds the member
Designated(r, labels) ==
    {i \in 1..Len(r.iloc) :
        \/ (i - 1) \in labels.ints
        \/ \E n \in labels.strs : n \in Keys(r.loc) /\ Lookup(r.loc, n) = r.iloc[i]}

\* C5: drop with positions only, or with names only, removes exactly the
\* designated members: what read iterates over afterwards is the remaining
\* members in their order (stated for a drop that leaves a member, on a
\* stack of distinct members in which loc holds one entry per member).
C5_DropRemovesDesignated ==
    (/\ op.name = "drop"
     /\ (op.labels.ints = {} \/ op.labels.strs = {})
     /\ op.labels.strs \subseteq Keys(pre.loc)
     /\ Len(pre.loc) = Len(pre.iloc)
     /\ Distinct(pre.iloc)
     /\ pre.layers = pre.iloc
     /\ Designated(pre, op.labels) # 1..Len(pre.iloc))
        => raster.iloc =
              KeepIdx(pre.iloc, (1..Len(pre.iloc)) \ Designated(pre, op.labels), 1)

\* C6: after a construction, append, drop or rename that succeeded, the
\* metadata is what the current members give: count is their number,
\* meta.count is count, meta.dtype is the promotion of their dtypes, and
\* width, height and transform are those of every member.
C6_MetaDerived ==
    (op.name \in {"Raster", "append", "drop", "rename"} /\ op.err = "none"
        /\ IsStack(raster))
        => /\ raster.count = Len(raster.iloc)
           /\ raster.meta.count = raster.count
           /\ raster.meta.dtype =
                 _maximum_dtype([i \in 1..Len(raster.iloc) |-> layer_dtype(raster.iloc[i])])
           /\ \A i \in 1..Len(raster.iloc) :
                 /\ raster.meta.width = ds(raster.iloc[i]).width
                 /\ raster.meta.height = ds(raster.iloc[i]).height
                 /\ raster.meta.transform = ds(raster.iloc[i]).transform
                 /\ raster.width = raster.meta.width
                 /\ raster.height = raster.meta.height
                 /\ raster.transform = raster.meta.transform

\* C7: a construction or an append that is rejected with a validation error
\* leaves every field of the stack as it was before the call.
C7_RejectedLeavesState ==
    (op.name \in {"Raster", "append"} /\ op.err = "ValueError") => raster = pre

\* the documented rank order, lowest first
RankOrder ==
    <<"bool", "uint16", "int16", "uint32", "int32", "float32", "float64",
      "complex", "complex64", "complex128">>

HighestRanked(S) ==
    RankOrder[CHOOSE i \in 1..Len(RankOrder) :
                 /\ RankOrder[i] \in S
                 /\ \A j \in 1..Len(RankOrder) : RankOrder[j] \in S => j <= i]

Permuted(s) == {[i \in 1..Len(s) |-> s[p[i]]] : p \in Permutations(1..Len(s))}

\* C8: for a dtype list holding a ranked dtype, the promoted dtype is the
\* highest-ranked dtype of the list, and every reordering of the list gives
\* the same result.
C8_HighestRanked ==
    (dtype_out # "unset" /\ Range(dtypes_in) \cap Range(RankOrder) # {})
        => /\ dtype_out = HighestRanked(Range(dtypes_in))
           /\ \A t \in Permuted(dtypes_in) : _maximum_dtype(t) = dtype_out

C8_Witness ==
    /\ dtypes_in = <<"int16", "float32", "uint16">>
    /\ dtype_out = "float32"

\* C9: a construction from layers that agree on the grid and differ in crs
\* succeeds and issues a warning.
C9_CrsWarning ==
    (/\ op.name = "Raster"
     /\ Len(op.layers) > 0
     /\ AllRasterLayers(op.layers)
     /\ ~Misaligned(op.layers)
     /\ \E i \in 1..Len(op.layers) : ds(op.layers[i]).crs # ds(op.layers[1]).crs
     /\ op.err = "none")
        => op.warnings > 0

\* the whitelist of the specification
Whitelist ==
    {"nearest", "bilinear", "cubic", "cubic-spline", "average", "mode", "min",
     "max", "q1", "q3", "gauss", "lanczos"}

\* the call was refused by the validation of the name: the error is raised
\* before any band is read
NameRefused == op.err = "ValueError" /\ op.bands_read = 0

\* the members have one shape, so that every band fills its slot of the
\* array
SameShape(layers) ==
    \A i \in 1..Len(layers) :
        /\ ds(layers[i]).width = ds(layers[1]).width
        /\ ds(layers[i]).height = ds(layers[1]).height

\* C10 as stated: read accepts exactly the names of the whitelist, and a
\* name outside it fails with a validation error before any band is read.
C10_WhitelistExact ==
    op.name = "read" => (NameRefused <=> op.resampling \notin Whitelist)

\* C10 amended: the validation of read accepts exactly the member names of
\* the resampling enumeration (cubic_spline with an underscore, and med);
\* any other name fails with a validation error before any band is read.
\* After an accepted name the bands are read one after the other, every
\* band once and without error on a stack whose members have one shape.
C10_EnumExact ==
    op.name = "read"
        => /\ NameRefused <=>
                op.resampling \notin {"nearest", "bilinear", "cubic", "cubic_spline",
                                      "lanczos", "average", "mode", "gauss", "max",
                                      "min", "med", "q1", "q3"}
           /\ ~NameRefused => op.bands_read >= 1
           /\ (~NameRefused /\ SameShape(raster.iloc))
                 => (op.err = "none" /\ op.bands_read = raster.count)

C10_Witness ==
    /\ op.name = "read"
    /\ op.resampling = "cubic-spline"
    /\ op.err = "ValueError"
    /\ op.bands_read = 0
    /\ raster.count > 1

\* the promoted dtype of the current members
MembersDtype(r) == _maximum_dtype([i \in 1..Len(r.iloc) |-> layer_dtype(r.iloc[i])])

\* C11: in every reachable state, calc or predict having been run on the
\* stack or not, the array read returns has the promoted dtype of the
\* current members and the shape (count, h, w), (h, w) being out_shape if
\* given, else the size of the window, else the full grid.
C11_ReadDtypeShape ==
    (op.name = "read_array" /\ op.err = "none")
        => /\ op.dtype = MembersDtype(raster)
           /\ op.shape =
                 <<Len(raster.iloc),
                   IF op.out_shape # NoShape THEN op.out_shape[1]
                   ELSE IF op.window # NoWindow THEN op.window.height
                   ELSE ds(raster.iloc[1]).height,
                   IF op.out_shape # NoShape THEN op.out_shape[2]
                   ELSE IF op.window # NoWindow THEN op.window.width
                   ELSE ds(raster.iloc[1]).width>>

\* the events of a loop over n windows: read 1, write 1, read 2, write 2, ...
PipelineLog(n) ==
    [e \in 1..(2 * n) |-> IF e % 2 = 1 THEN <<"read", (e + 1) \div 2>>
                          ELSE <<"write", e \div 2>>]

\* the masked values of the stack's members in a window, in their promoted
\* dtype; a cell that a member does not have counts as masked
MaskedInput(r, window) ==
    [b \in 1..Len(r.iloc) |-> [i \in 1..window.height |-> [j \in 1..window.width |->
        LET row == window.row_off + i - 1
            col == window.col_off + j - 1
        IN  IF row < ds(r.iloc[b]).height /\ col < ds(r.iloc[b]).width
            THEN [data |-> astype(PixelValue(r.iloc[b], row, col), MembersDtype(r)),
                  mask |-> PixelMasked(r.iloc[b], row, col)]
            ELSE [data |-> 0, mask |-> TRUE]]]]

\* what the call in progress has to write at window k: its function, or its
\* prediction, on the masked input, in the dtype asked for, masked cells
\* replaced by nodata
PipelineOutput(k) ==
    LET input == MaskedInput(pre, blk.windows[k])
        result == IF blk.kind = "calc" THEN function_apply(blk.function, input)
                  ELSE take(predfun(blk.predict_type, input, blk.estimator), blk.indexes)
    IN  [b \in 1..Len(result) |-> [i \in 1..Len(result[b]) |->
            [j \in 1..Len(result[b][i]) |->
                IF result[b][i][j].mask THEN blk.nodata
                ELSE astype(result[b][i][j].data, blk.dtype)]]]

\* C12: calc and predict read and write every block window of the
\* destination once, in the enumeration order, each write before the next
\* read, and what is written at a window is the function's result on the
\* masked input of the window with masked cells replaced by nodata (with
\* the identity: the stack's own values), with progress and without.
C12_BlockPipeline ==
    (blk.phase \in {"loop", "done"} /\ blk.kind \in {"calc", "predict"})
        => /\ blk.windows = block_windows(ds(pre.iloc[1]).width, ds(pre.iloc[1]).height,
                                          blk.count, blk.dtype)
           /\ Len(blk.log) <= 2 * Len(blk.windows)
           /\ blk.log = SubSeq(PipelineLog(Len(blk.windows)), 1, Len(blk.log))
           /\ blk.phase = "done" => Len(blk.log) = 2 * Len(blk.windows)
           /\ \A k \in 1..Len(blk.out) : blk.out[k] = PipelineOutput(k)

\* C13: the output of predict has one band with predict_type 'raw'; with
\* 'prob' it has as many bands as the estimator has classes when indexes is
\* None, len(indexes) bands when indexes is a list, and one band when
\* indexes is a single integer; every window is written with that many
\* bands.
C13_OutputBands ==
    (blk.kind = "predict" /\ blk.phase \in {"loop", "done"})
        => /\ blk.count =
                 IF blk.predict_type = "raw" THEN 1
                 ELSE IF blk.given.kind = "none" THEN blk.estimator.classes
                 ELSE IF blk.given.kind = "list" THEN Len(blk.given.at)
                 ELSE 1
           /\ raster.meta.count = blk.count
           /\ \A k \in 1..Len(blk.out) : Len(blk.out[k]) = blk.count
           /\ blk.phase = "done" => Len(blk.names) = blk.count

C13_Witness ==
    /\ blk.kind = "predict"
    /\ blk.phase = "done"
    /\ blk.predict_type = "prob"
    /\ blk.given.kind = "int"
    /\ blk.estimator.classes > 1
    /\ Len(blk.out) = Len(blk.windows)
    /\ Len(blk.out) >= 1
    /\ Len(blk.out[1]) = 1
    /\ blk.count = 1

\* C14: in every window a cell of the prediction is masked, and written as
\* nodata, exactly when a band of the input is masked at that cell: the
\* single band of _predfun and every class band of _probfun.
C14_MaskPropagated ==
    prd.done
        => /\ Len(prd.raw) = 1
           /\ Len(prd.prob) = prd.estimator.classes
           /\ \A i \in 1..PredShape[1], j \in 1..PredShape[2] :
                 LET any == \E f \in 1..Len(prd.img) : prd.img[f][i][j].mask
                 IN  /\ prd.raw[1][i][j].mask <=> any
                     /\ any => filled(prd.raw, predfun_dtype("raw"), "float32", nodata)[1][i][j] = nodata
                     /\ \A k \in 1..Len(prd.prob) :
                           /\ prd.prob[k][i][j].mask <=> any
                           /\ any => filled(prd.prob, predfun_dtype("prob"), "float32", nodata)[k][i][j] = nodata

C14_Witness ==
    /\ prd.done
    /\ Len(prd.img) = 2
    /\ ~prd.img[1][1][2].mask
    /\ prd.img[2][1][2].mask
    /\ prd.prob[2][1][2].mask
    /\ prd.raw[1][1][2].mask
    /\ ~prd.raw[1][2][1].mask

\* C15: extract_xy returns one row for each point strictly inside the
\* bounding box (left < x < right and bottom < y < top), in the order of the
\* points, and no row for a point on the boundary or outside.
C15_StrictlyInside ==
    (ext.name = "extract_xy")
        => LET b == bounds(raster)
               in == {i \in 1..Len(ext.points) :
                         /\ b.left < ext.points[i][1] /\ ext.points[i][1] < b.right
                         /\ b.bottom < ext.points[i][2] /\ ext.points[i][2] < b.top}
               kept == KeepIdx(ext.points, in, 1)
           IN  /\ ext.err = "none"
               /\ Len(ext.X) = Len(kept)
               /\ \A i \in 1..Len(kept) :
                     /\ ext.X[i].pixel = rowcol(raster, kept[i])
                     /\ ext.X[i].pixel[1] \in 0..(raster.height - 1)
                     /\ ext.X[i].pixel[2] \in 0..(raster.width - 1)
                     /\ Len(ext.X[i].cells) = Len(raster.iloc)

\* the points of the call that lie inside the extent
ClippedPoints ==
    KeepIdx(ext.points, {i \in 1..Len(ext.points) : inside(raster, ext.points[i].xy)}, 1)

EqualLabel(a, b) == a.num * b.den = b.num * a.den

\* C16: extract_vector on points with a label field and duplicates in
\* {mean, min, max} returns at most one sample per pixel, labelled with the
\* mean, min or max of the labels of all the points in that pixel.
C16_DuplicatesMerged ==
    (/\ ext.name = "extract_vector"
     /\ ext.geom = "Point"
     /\ ext.field # "none"
     /\ ext.duplicates \in {"mean", "min", "max"})
        => /\ ext.err = "none"
           /\ \A i, j \in 1..Len(ext.X) : ext.X[i].pixel = ext.X[j].pixel => i = j
           /\ Len(ext.y) = Len(ext.X)
           /\ \A i \in 1..Len(ext.X) :
                 LET pts == ClippedPoints
                     here == {k \in 1..Len(pts) : rowcol(raster, pts[k].xy) = ext.X[i].pixel}
                 IN  /\ here # {}
                     /\ EqualLabel(ext.y[i],
                                   aggregate(ext.duplicates,
                                             [k \in 1..Len(pts) |-> pts[k].label], here))

\* the rows of a sample list whose pixel is valid in every band
ValidRows(r, pixels) ==
    {i \in 1..Len(pixels) :
        \A b \in 1..Len(r.iloc) : ~PixelMasked(r.iloc[b], pixels[i][1], pixels[i][2])}

\* C17: with na_rm, extract_vector and extract_raster return exactly the
\* rows of the valid samples: a row whose pixel is no-data in a band is in
\* none of X, y and xy, and every other row is in all of them.
C17_InvalidRowsRemoved ==
    (/\ ext.name \in {"extract_vector", "extract_raster"}
     /\ ext.na_rm
     /\ ext.err = "none")
        => LET kept == KeepIdx(ext.samples, ValidRows(raster, ext.samples), 1)
           IN  /\ Len(ext.X) = Len(kept)
               /\ Len(ext.xy) = Len(kept)
               /\ ext.field # "none" => Len(ext.y) = Len(kept)
               /\ \A i \in 1..Len(ext.X) :
                     /\ ext.X[i].pixel = kept[i]
                     /\ rowcol(raster, ext.xy[i]) = kept[i]

\* C18: for every geometry kind, duplicates mode, low_memory and na_rm,
\* the X, y (when a field is given) and xy that extract_vector returns have
\* the same number of rows, row i of each being about the same pixel.
C18_RowsAligned ==
    (ext.name = "extract_vector" /\ ext.err = "none")
        => /\ Len(ext.xy) = Len(ext.X)
           /\ ext.field # "none" => Len(ext.y) = Len(ext.X)
           /\ \A i \in 1..Len(ext.X) : rowcol(raster, ext.xy[i]) = ext.X[i].pixel

\* no pixel of the stack is no-data in a band
NoNodata(r) ==
    \A b \in 1..Len(r.iloc), i \in 0..(r.height - 1), j \in 0..(r.width - 1) :
        ~PixelMasked(r.iloc[b], i, j)

\* C19: a random sample of size N of a stack without no-data
\* pixels is finished after exactly one round of drawing, with exactly N
\* rows, whatever is drawn.
C19_OneRound ==
    (smp.mode \in {"random", "failed"} /\ NoNodata(raster) /\ smp.round >= 1)
        => /\ smp.err = "none"
           /\ smp.satisfied
           /\ smp.round = 1
           /\ Len(smp.valid_samples) = smp.size

\* C20: a stratified sample draws, for each category of the strata raster
\* that is not no-data, exactly size positions inside the category; the
\* positions of a category are distinct when size does not exceed its
\* pixels, and a warning is issued, the call not failing, for each category
\* that has fewer pixels than size.
C20_Stratified ==
    smp.mode = "stratified"
        => \A cat \in Range(smp.strata) \ {strata_nodata} :
              LET footprint == Range(strata_ind(raster, smp.strata, cat))
                  taken == KeepIdx(smp.selected,
                                   {i \in 1..Len(smp.selected) : smp.selected[i].cat = cat}, 1)
              IN  /\ Len(taken) = smp.size
                  /\ \A i \in 1..Len(taken) : taken[i].pixel \in footprint
                  /\ smp.size <= Cardinality(footprint) => Distinct(taken)
                  /\ smp.size > Cardinality(footprint) => smp.warnings > 0

\* C21: looking a layer up by a name that is not one of the stack's current
\* layer names ends in a lookup error and returns no value, also when the
\* name is that of a field or a method of the stack.
C21_AbsentNameRaises ==
    (op.name = "getitem" /\ op.key \notin Range(pre.names))
        => (op.err \in {"AttributeError", "KeyError"} /\ op.value = NoValue)

\* C22: calc takes the output band count from the function's result on the
\* probe window, its leading dimension when the result is 3-dimensional and
\* 1 otherwise, so a function returning a 2-dimensional array gives a
\* single-band output and no error.
C22_BandCount ==
    (op.name = "calc" /\ (function_ndim(blk.function) > 2 => blk.phase # "failed"))
        => /\ op.err \in {"pending", "none"}
           /\ blk.count = IF function_ndim(blk.function) > 2 THEN raster.count ELSE 1

\* C23: predict with a predict_type other than 'raw' and 'prob' raises,
\* whatever indexes is, before the destination is opened and before any
\* window is read or written, and produces no output.
C23_FailFast ==
    (op.name = "predict" /\ ~predfun_bound(blk.predict_type))
        => /\ op.err \notin {"pending", "none"}
           /\ ~blk.opened
           /\ blk.log = <<>>
           /\ blk.out = <<>>
           /\ raster = pre

\* some pixel of the stack is valid in every band
HasValidPixel(r) ==
    \E i \in 0..(r.height - 1), j \in 0..(r.width - 1) :
        \A b \in 1..Len(r.iloc) : ~PixelMasked(r.iloc[b], i, j)

\* the rows the random mode holds are valid, and the loop is over exactly
\* when size of them are there; until then the next round draws the deficit
SampleAccumulates ==
    smp.mode = "random"
        => /\ \A i \in 1..Len(smp.valid_samples) : ~row_masked(smp.valid_samples, i)
           /\ Len(smp.valid_coordinates) = Len(smp.valid_samples)
           /\ smp.satisfied => Len(smp.valid_samples) >= smp.size
           /\ ~smp.satisfied => /\ Len(smp.valid_samples) < smp.size
                                /\ smp.n = smp.size - Len(smp.valid_samples)

\* a round appends to the rows of the rounds before it, and draws n positions
SampleAppends ==
    (smp.mode = "random" /\ smp'.mode = "random")
        => /\ Len(smp'.draw) = smp.n
           /\ Len(smp'.valid_samples) >= Len(smp.valid_samples)
           /\ SubSeq(smp'.valid_samples, 1, Len(smp.valid_samples)) = smp.valid_samples

\* C24: the random mode of sample accumulates valid rows over its rounds,
\* every later round drawing exactly the rows still missing; under fair
\* draws it terminates whenever some pixel of the stack is valid in every
\* band, and when it has terminated it holds at least size rows.
C24_Terminates ==
    /\ []SampleAccumulates
    /\ [][SampleAppends]_vars
    /\ (smp.mode = "random" /\ HasValidPixel(raster)) ~> smp.satisfied

\* C25: the module-level predict and calc on a dataset choose the output
\* band count that Raster.predict and Raster.calc choose on the stack of the
\* dataset's bands (with 'prob' and indexes None the estimator's class
\* count) and write the same values at every window.
C25_DatasetFunctions ==
    (blk.phase \in {"loop", "done"} /\ blk.kind \in {"calc", "predict"}
        /\ SingleDataset(raster)
        /\ (blk.kind = "predict" => predfun_bound(blk.predict_type)))
        => /\ Len(blk.ds_indexes) = blk.count
           /\ blk.kind = "predict" /\ blk.predict_type = "prob" /\ blk.given.kind = "none"
                 => Len(blk.ds_indexes) = blk.estimator.classes
           /\ blk.ds_out = blk.out

\* C26: calc, predict and crop leave the source stack as it was: after the
\* call has returned, its meta (count, dtype, no driver and no nodata key),
\* its count, its names and its members are those of before the call.
C26_SourceUnchanged ==
    (op.name \in {"calc", "predict", "crop"} /\ op.err = "none")
        => /\ raster.meta = pre.meta
           /\ raster.meta.driver = "absent" /\ raster.meta.nodata = "absent"
           /\ raster.count = pre.count
           /\ raster.names = pre.names
           /\ raster.iloc = pre.iloc
           /\ raster.loc = pre.loc

\* the name index and the positional index of a stack agree
IndexesAgree(r) ==
    /\ Len(r.names) = Len(r.iloc)
    /\ Len(r.loc) = Len(r.iloc)
    /\ r.count = Len(r.iloc)
    /\ \A i \in 1..Len(r.names) :
          /\ r.names[i] \in Keys(r.loc)
          /\ Lookup(r.loc, r.names[i]) = r.iloc[i]
    /\ [i \in 1..Len(r.loc) |-> iterlayers(r)[i][2]] = r.iloc

\* C27: in every stack reached by construction, append, drop and rename,
\* and in every stack returned by calc, predict or crop, names, iloc and loc
\* have count entries, loc[names[i]] is iloc[i] for every i, and iterlayers
\* yields the members in the order of iloc.
C27_IndexesAgree ==
    /\ (op.name \in {"Raster", "append", "drop", "rename"} /\ op.err = "none"
            /\ IsStack(raster))
          => IndexesAgree(raster)
    /\ blk.phase = "done"
          => (blk.names = blk.keys /\ Len(blk.names) = blk.count)

\* C28: for the same response, field, duplicates and na_rm, extract_vector
\* with low_memory=True (extract_xy) and with low_memory=False
\* (_extract_by_indices) return X with the same number of rows, the same
\* values and the same mask.
C28_StrategiesAgree ==
    (ext.name = "extract_vector" /\ ext.err = "none" /\ ext.other_err = "none")
        => /\ Len(ext.X) = Len(ext.other_X)
           /\ \A i \in 1..Len(ext.X) : ext.X[i].cells = ext.other_X[i].cells

\* C29: for every non-empty list of band dtypes, lists made only of uint8
\* and int8 included, the promotion evaluated by the layers setter and the
\* module-level promotion both return a dtype instead of raising on an
\* unbound local.
C29_PromotionTotal ==
    (dtype_out # "unset" /\ dtypes_in # <<>>)
        => /\ dtype_out \in DTypes
           /\ _maximum_dtype_src(dtypes_in) \in DTypes

====
